---- MODULE Spec2Model ----
(***************************************************************************)
(* Model of the per-service request scheduler (AIPerService), the service  *)
(* registry, the URL to service-name extractor and the texture fetch       *)
(* worker of the viewer.                                                    *)
(*                                                                         *)
(* Not modelled: the statistics flags ctf_empty, ctf_full, ctf_starvation  *)
(* and TotalQueued::empty/full/starvation.  add_queued_to only ever sets   *)
(* them and no code of the scheduler reads them.                           *)
(***************************************************************************)
EXTENDS Integers, Sequences, FiniteSets, TLC

(***************************************************************************)
(* Bounds of the model and program constants.                              *)
(***************************************************************************)
\* Cached value of the setting CurlConcurrentConnectionsPerService.
CurlConcurrentConnectionsPerService == 2
\* Number of distinct service names (keys of sInstanceMap).
NumNames == 2
\* Number of easy requests in the scheduler specification Spec.
NumRequests == 2
\* Number of easy requests in the single-queue specification SpecQueue.
NumQueueRequests == 4
\* Largest initial queue length per capability type in SpecFair.
MaxQueued == 3
\* Largest |increment| passed to adjust_concurrent_connections.
MaxIncrement == 2
\* Longest host name of a url in SpecUrl.
MaxHostLen == 2
\* Largest discard level (MAX_DISCARD_LEVEL) in SpecFetch.
MaxDiscard == 1
\* Largest desired size (MAX_IMAGE_DATA_SIZE), in units of
\* TEXTURE_CACHE_ENTRY_SIZE.
MaxSize == 2
\* Number of accepted calls of createRequest in SpecFetch.
MaxCreates == 2
\* Largest mHTTPFailCount at which an http request may still fail.
MaxHTTPFail == 4
\* The blacklist counts at most MaxErrors errors of a host, and its clock
\* runs up to MaxNow.
MaxErrors == 22
MaxNow == 2
\* An asset has at most MaxAsset bytes.
MaxAsset == 4
\* Largest number of http requests issued for the texture id in SpecLate.
MaxIssued == 2
\* Number of threads that call into AIPerService in SpecLocks.
NumThreads == 2

\* Program constants of the texture fetch; priorities are integers and
\* F_ALMOST_ZERO is the smallest positive one.
TEXTURE_CACHE_ENTRY_SIZE == 1
F_ALMOST_ZERO == 1
HTTP_OK == 200
HTTP_MULTIPLE_CHOICES == 300
HTTP_NOT_FOUND == 404
HTTP_SERVICE_UNAVAILABLE == 503
\* The defaults of the settings HTTPMaxRequests, HTTPMinRequests and
\* HTTPThrottleBandwidth.
max_http_requests == 8
min_http_requests == 2
throttle_bandwidth == 2000
\* FIRST_PACKET_SIZE and MAX_IMG_PACKET_SIZE, in bytes of the model: the
\* header packet is shorter than the packets that follow it.
FIRST_PACKET_SIZE == 1
MAX_IMG_PACKET_SIZE == 2
\* SGHostBlackList::MAX_ERRORCOUNT.
MAX_ERRORCOUNT == 20
HTTP_MAX_RETRY_COUNT == 3

number_of_capability_types == 4

ServiceNames == 1..NumNames          \* std::map iterates in ascending key order
Objs == 1..NumNames                  \* addresses of RefCountedThreadSafePerService objects
NoObj == 0                           \* a null AIPerServicePtr / no map entry
Caps == 0..(number_of_capability_types - 1)
Increments == (0 - MaxIncrement)..MaxIncrement

VARIABLES
  sInstanceMap,   \* [ServiceNames -> Objs \cup {NoObj}]
  perService,     \* [Objs -> AIPerService record]: the heap of service objects
  sTotalQueued,   \* [count]: TotalQueued
  easy,           \* [requests -> [ps, st, cap, rel]]: each request's handle and position
  lastOp,         \* the operation that led to this state (observer)
  enqueued,       \* observer: <<request, capability type>> queued so far, in order
  cancelled,      \* observer: the requests cancelled so far
  dispatched,     \* observer: <<request, capability type>> handed to the transport, in order
  url,            \* [scheme, userinfo, host, port, path, text]: the url handed to the extractor
  canonical,      \* [done, name]: what extract_canonical_servicename returned
  threads,        \* [thread -> the call of AIPerService it is in and how far it got]
  worker,         \* the LLTextureFetchWorker of one texture id
  fetcher,        \* the LLTextureFetch members the worker uses
  observed,       \* observer: calls of createRequest, outcome of the last pass
  bytes,          \* the contents of the buffers of the worker, and what was written
  blackList,      \* SGHostBlackList::blacklist and the clock
  deleted         \* the worker that removeRequest scheduled for deletion

svars == <<sInstanceMap, perService, sTotalQueued, easy, lastOp,
           enqueued, cancelled, dispatched>>
uvars == <<url, canonical, threads>>
wvars == <<worker, fetcher, observed>>
xvars == <<bytes, blackList, deleted>>

(***************************************************************************)
(* AIPerService::AIPerService and CapabilityType::CapabilityType.          *)
(***************************************************************************)
NewPerService(name) ==
  [ alive |-> TRUE,
    name |-> name,
    mReferenceCount |-> 0,
    mConcurrectConnections |-> CurlConcurrentConnectionsPerService,
    mTotalAdded |-> 0,
    mApprovedFirst |-> 0,
    mUnapprovedFirst |-> 0,
    mAdded |-> [c \in Caps |-> 0],
    mDownloading |-> [c \in Caps |-> 0],
    mMaxPipelinedRequests |-> [c \in Caps |-> CurlConcurrentConnectionsPerService],
    mQueuedRequests |-> [c \in Caps |-> << >>] ]

\* Freed memory: the object does not exist.
FreedPerService == [NewPerService(0) EXCEPT !.alive = FALSE]

IdleRequest == [ps |-> NoObj, st |-> "idle", cap |-> 0, rel |-> FALSE]

NoOp == [op |-> "init"]

\* A thread outside AIPerService: it holds no lock.
Threads == 1..NumThreads
Idle == [pc |-> "idle", this |-> NoObj, n |-> 0, bw |-> {},
         increment |-> 0, ret |-> FALSE]

\* The parts of the state a specification does not use.
NoUrl ==
  /\ url = [text |-> << >>]
  /\ canonical = [done |-> FALSE, name |-> << >>]
  /\ threads = [t \in Threads |-> Idle]

\* No worker in the request map, nothing queued, no responder outstanding.
NoWorker == [exists |-> FALSE]
IdleFetcher ==
  [mBlackListedAsset |-> FALSE, mNetworkQueue |-> FALSE,
   mCancelQueue |-> {}, mHTTPTextureQueue |-> FALSE, cacheRead |-> FALSE,
   httpGet |-> FALSE, decode |-> FALSE, cacheWrite |-> FALSE,
   crashed |-> FALSE]
NoCalls == [pass |-> "none", creates |-> 0, hit |-> FALSE]
NoFetch ==
  /\ worker = NoWorker
  /\ fetcher = IdleFetcher
  /\ observed = NoCalls

\* No buffer holds data, nothing was written, the blacklist is empty and no
\* worker is scheduled for deletion.
NoSend == [num |-> 0, bw |-> 0, did |-> "none", range |-> << >>]
NoUdp ==
  [what |-> "none", host |-> "", index |-> 0, size |-> 0, stage |-> "none",
   res |-> FALSE]
NoBytes ==
  [asset |-> 0, cached |-> 0, formatted |-> << >>, httpBuffer |-> << >>,
   writes |-> << >>, got |-> [cache |-> 0, http |-> 0], send |-> NoSend,
   udp |-> NoUdp, deliveries |-> [pass |-> 0, last |-> 0, before |-> 0, gap |-> FALSE],
   notFound |-> FALSE, recreated |-> FALSE]
NoQuery == [url |-> << >>, found |-> FALSE]
NoBlackList == [blacklist |-> << >>, now |-> 0, asked |-> NoQuery]
NoExtras ==
  /\ bytes = NoBytes
  /\ blackList = NoBlackList
  /\ deleted = NoWorker

NoServices ==
  /\ sInstanceMap = [n \in ServiceNames |-> NoObj]
  /\ perService = [o \in Objs |-> FreedPerService]
  /\ sTotalQueued = [count |-> 0]
  /\ easy = [w \in 1..NumRequests |-> IdleRequest]
  /\ lastOp = NoOp
  /\ enqueued = << >>
  /\ cancelled = {}
  /\ dispatched = << >>

SvcInit == NoServices /\ NoUrl /\ NoFetch /\ NoExtras

(***************************************************************************)
(* Helpers on sequences.                                                   *)
(***************************************************************************)
RECURSIVE SumOver(_, _)
SumOver(f, S) ==
  IF S = {} THEN 0
  ELSE LET x == CHOOSE y \in S : TRUE IN f[x] + SumOver(f, S \ {x})

\* std::find: index of the first occurrence of w in q, 0 when absent (== end).
RECURSIVE FindFrom(_, _, _)
FindFrom(q, w, i) ==
  IF i > Len(q) THEN 0
  ELSE IF q[i] = w THEN i
  ELSE FindFrom(q, w, i + 1)

std_find(q, w) == FindFrom(q, w, 1)

Swap(q, i, j) == [q EXCEPT ![i] = q[j], ![j] = q[i]]

\* A faulty variant of the swap loop: swap with the last element at once.
SwapWithLast(q, prev) == Swap(q, prev, Len(q))

\* The loop "while (++cur != end) { prev->swap(*cur); prev = cur; }".
RECURSIVE SwapToBack(_, _)
SwapToBack(q, prev) ==
  IF prev + 1 > Len(q) THEN q
  ELSE SwapToBack(Swap(q, prev, prev + 1), prev + 1)

pop_back(q) == SubSeq(q, 1, Len(q) - 1)
pop_front(q) == SubSeq(q, 2, Len(q))

(***************************************************************************)
(* Reference counting of RefCountedThreadSafePerService.                   *)
(***************************************************************************)
intrusive_ptr_add_ref(ps, o) ==
  [ps EXCEPT ![o].mReferenceCount = @ + 1]

intrusive_ptr_release(ps, o) ==
  IF ps[o].mReferenceCount - 1 = 0
  THEN [ps EXCEPT ![o] = FreedPerService]
  ELSE [ps EXCEPT ![o].mReferenceCount = @ - 1]

exactly_two_left(s) == s.mReferenceCount = 2

(***************************************************************************)
(* AIPerService member functions, on one service record s.                 *)
(***************************************************************************)
throttled(s) == s.mTotalAdded >= s.mConcurrectConnections

\* A faulty variant of added_to_multi_handle that forgets ++mTotalAdded.
added_to_multi_handle_without_total(s, capability_type) ==
  [s EXCEPT !.mAdded[capability_type] = @ + 1]

added_to_multi_handle(s, capability_type) ==
  [s EXCEPT !.mAdded[capability_type] = @ + 1,
            !.mTotalAdded = @ + 1]

removed_from_multi_handle(s, capability_type, downloaded_something) ==
  [s EXCEPT !.mAdded[capability_type] = @ - 1,
            !.mDownloading[capability_type] =
                IF downloaded_something THEN @ - 1 ELSE @,
            !.mTotalAdded = @ - 1]

\* A faulty variant of queue that stores the request twice.
queue_twice(s, tq, w, capability_type) ==
  [s |-> [s EXCEPT !.mQueuedRequests[capability_type] = Append(Append(@, w), w)],
   tq |-> [tq EXCEPT !.count = @ + 1]]

\* queue(): push_back and count++ ; returns <<service, total>>.
queue(s, tq, w, capability_type) ==
  [s |-> [s EXCEPT !.mQueuedRequests[capability_type] = Append(@, w)],
   tq |-> [tq EXCEPT !.count = @ + 1]]

\* A faulty variant of cancel that forgets TotalQueued::count--.
cancel_without_count(s, tq, w, capability_type) ==
  LET q == s.mQueuedRequests[capability_type]
      cur == std_find(q, w)
  IN IF cur = 0
     THEN [s |-> s, tq |-> tq, found |-> FALSE]
     ELSE [s |-> [s EXCEPT !.mQueuedRequests[capability_type] =
                              pop_back(SwapToBack(q, cur))],
           tq |-> tq,
           found |-> TRUE]

\* cancel(): returns [s, tq, found].
cancel(s, tq, w, capability_type) ==
  LET q == s.mQueuedRequests[capability_type]
      cur == std_find(q, w)
  IN IF cur = 0
     THEN [s |-> s, tq |-> tq, found |-> FALSE]
     ELSE [s |-> [s EXCEPT !.mQueuedRequests[capability_type] =
                              pop_back(SwapToBack(q, cur))],
           tq |-> [tq EXCEPT !.count = @ - 1],
           found |-> TRUE]

(***************************************************************************)
(* MultiHandle::add_easy_request(request, from_queue = true): the transport *)
(* accepts a request of service o unless the service is throttled or the   *)
(* transport is out of bandwidth for it (o \in bw); on accept it calls     *)
(* added_to_multi_handle.  G = [ps, tq, rq, log] is the state the call acts  *)
(* on; log lists the requests the transport accepted.                      *)
(***************************************************************************)
add_easy_request_accepts(G, o, bw) ==
  /\ o \notin bw
  /\ ~throttled(G.ps[o])

add_easy_request(G, o, w) ==
  [G EXCEPT !.ps[o] = added_to_multi_handle(@, G.rq[w].cap),
            !.rq[w].st = "added",
            !.log = Append(@, <<w, G.rq[w].cap>>)]

(***************************************************************************)
(* AIPerService::add_queued_to.                                            *)
(***************************************************************************)
\* A faulty variant of the order: the approved type with the shorter queue first.
Order_shorter_first(s) ==
  LET s0 == Len(s.mQueuedRequests[0])
      s1 == Len(s.mQueuedRequests[1])
      n == s.mUnapprovedFirst
  IN [i \in Caps |->
        IF i = 0 THEN (IF s0 = s1 THEN s.mApprovedFirst
                       ELSE IF s0 < s1 THEN 0 ELSE 1)
        ELSE IF i = 1 THEN (IF s0 = s1 THEN 1 - s.mApprovedFirst
                            ELSE IF s0 < s1 THEN 1 ELSE 0)
        ELSE 2 + ((n + (i - 2)) % (number_of_capability_types - 2))]

\* The visiting order of the capability types (lines 314-340).
Order(s) ==
  LET s0 == Len(s.mQueuedRequests[0])
      s1 == Len(s.mQueuedRequests[1])
      n == s.mUnapprovedFirst
  IN [i \in Caps |->
        IF i = 0 THEN (IF s0 = s1 THEN s.mApprovedFirst
                       ELSE IF s0 > s1 THEN 0 ELSE 1)
        ELSE IF i = 1 THEN (IF s0 = s1 THEN 1 - s.mApprovedFirst
                            ELSE IF s0 > s1 THEN 1 ELSE 0)
        ELSE 2 + ((n + (i - 2)) % (number_of_capability_types - 2))]

\* A faulty variant of Rotate that advances mUnapprovedFirst only when the
\* approved cursor is flipped.
Rotate_with_approved(s) ==
  IF Len(s.mQueuedRequests[0]) = Len(s.mQueuedRequests[1])
  THEN [s EXCEPT !.mApprovedFirst = 1 - @,
                 !.mUnapprovedFirst = (@ + 1) % (number_of_capability_types - 2)]
  ELSE s

\* The rotation cursors after the order has been computed (lines 322, 341).
Rotate(s) ==
  [s EXCEPT !.mApprovedFirst =
               IF Len(s.mQueuedRequests[0]) = Len(s.mQueuedRequests[1])
               THEN 1 - @ ELSE @,
            !.mUnapprovedFirst = (@ + 1) % (number_of_capability_types - 2)]

\* A faulty variant of the loop that takes a refused request out of its queue.
RECURSIVE Walk_dropping_refused(_, _, _, _, _)
Walk_dropping_refused(G, o, order, i, bw) ==
  IF i >= number_of_capability_types THEN [g |-> G, ret |-> FALSE]
  ELSE
    LET c == order[i]
        q == G.ps[o].mQueuedRequests[c]
    IN IF q # << >>
       THEN LET G1 == IF add_easy_request_accepts(G, o, bw)
                      THEN add_easy_request(G, o, Head(q)) ELSE G
                G2 == [G1 EXCEPT !.ps[o].mQueuedRequests[c] = pop_front(q)]
                G3 == [G2 EXCEPT !.tq.count = @ - 1]
            IN [g |-> G3, ret |-> TRUE]
       ELSE
         IF i = number_of_capability_types - 1 /\ G.tq.count = 0
         THEN [g |-> G, ret |-> TRUE]
         ELSE Walk_dropping_refused(G, o, order, i + 1, bw)

\* The loop over order[i] (lines 343-400); ret = TRUE when the function returned
\* from inside the loop.
RECURSIVE Walk(_, _, _, _, _)
Walk(G, o, order, i, bw) ==
  IF i >= number_of_capability_types THEN [g |-> G, ret |-> FALSE]
  ELSE
    LET c == order[i]
        q == G.ps[o].mQueuedRequests[c]
    IN IF q # << >>
       THEN IF ~add_easy_request_accepts(G, o, bw)
            THEN [g |-> G, ret |-> FALSE]                    \* throttled: break
            ELSE
              LET G1 == add_easy_request(G, o, Head(q))
                  rest == pop_front(q)
                  G2 == [G1 EXCEPT !.ps[o].mQueuedRequests[c] = rest]
                  G3 == [G2 EXCEPT !.tq.count = @ - 1]
              IN [g |-> G3, ret |-> TRUE]
       ELSE
         IF i = number_of_capability_types - 1 /\ G.tq.count = 0
         THEN [g |-> G, ret |-> TRUE]
         ELSE Walk(G, o, order, i + 1, bw)

\* add_queued_to(multi_handle, true): lines 314-403.
add_queued_to_recursive(G, o, bw) ==
  LET order == Order(G.ps[o])
      G0 == [G EXCEPT !.ps[o] = Rotate(@)]
  IN Walk(G0, o, order, 0, bw)

\* The loop over sInstanceMap (lines 406-415), from service name n on.
RECURSIVE OtherServices(_, _, _, _, _)
OtherServices(G, map, this, n, bw) ==
  IF n > NumNames THEN G
  ELSE IF map[n] = NoObj \/ map[n] = this
       THEN OtherServices(G, map, this, n + 1, bw)
       ELSE OtherServices(add_queued_to_recursive(G, map[n], bw).g,
                          map, this, n + 1, bw)

\* A faulty variant of add_queued_to that never tries the other services.
add_queued_to_without_peers(G, map, o, recursive, bw) ==
  add_queued_to_recursive(G, o, bw).g

add_queued_to(G, map, o, recursive, bw) ==
  LET r == add_queued_to_recursive(G, o, bw)
  IN IF r.ret \/ recursive THEN r.g
     ELSE OtherServices(r.g, map, o, 1, bw)

(***************************************************************************)
(* AIPerService::purge.                                                    *)
(***************************************************************************)
RECURSIVE purge(_, _, _)
purge(G, map, n) ==
  IF n > NumNames THEN G
  ELSE IF map[n] = NoObj THEN purge(G, map, n + 1)
  ELSE
    LET o == map[n]
        qs == G.ps[o].mQueuedRequests
        total == SumOver([c \in Caps |-> Len(qs[c])], Caps)
        gone == {w \in DOMAIN G.rq : \E c \in Caps : std_find(qs[c], w) # 0}
        G1 == [G EXCEPT
                 !.ps[o].mQueuedRequests = [c \in Caps |-> << >>],
                 !.tq.count = @ - total,
                 !.rq = [w \in DOMAIN G.rq |->
                           IF w \in gone THEN [@[w] EXCEPT !.st = "idle", !.cap = 0]
                           ELSE @[w]]]
    IN purge(G1, map, n + 1)

(***************************************************************************)
(* AIPerService::adjust_concurrent_connections.  The sum                   *)
(* old_concurrent_connections + increment is computed in U32: a negative   *)
(* sum wraps to a value above every limit.  mMaxPipelinedRequests is kept  *)
(* as the signed representative of its U32 value (llmax(x, (U32)0) = x).   *)
(***************************************************************************)
\* A faulty variant of llclamp without the lower limit.
llclamp_U32_without_floor(sum, lo, hi) ==
  IF sum < 0 THEN hi
  ELSE IF sum > hi THEN hi
  ELSE sum

llclamp_U32(sum, lo, hi) ==
  IF sum < 0 THEN hi            \* wrapped around: 2^32 + sum > hi
  ELSE IF sum < lo THEN lo
  ELSE IF sum > hi THEN hi
  ELSE sum

RECURSIVE adjust_concurrent_connections(_, _, _, _)
adjust_concurrent_connections(ps, map, n, increment) ==
  IF n > NumNames THEN ps
  ELSE IF map[n] = NoObj THEN adjust_concurrent_connections(ps, map, n + 1, increment)
  ELSE
    LET o == map[n]
        old == ps[o].mConcurrectConnections
        new == llclamp_U32(old + increment, 1, CurlConcurrentConnectionsPerService)
        inc == new - old
        ps1 == [ps EXCEPT
                  ![o].mConcurrectConnections = new,
                  ![o].mMaxPipelinedRequests = [c \in Caps |-> @[c] + inc]]
    IN adjust_concurrent_connections(ps1, map, n + 1, inc)

(***************************************************************************)
(* AIPerService::instance and AIPerService::release.                       *)
(***************************************************************************)
HasFreeObj(ps) == \E o \in Objs : ~ps[o].alive

FreeObj(ps) == CHOOSE o \in Objs : ~ps[o].alive /\ \A p \in Objs : p < o => ps[p].alive

\* A faulty variant of instance that inserts without looking the name up.
instance_always_inserts(map, ps, servicename) ==
  IF HasFreeObj(ps)
  THEN LET o == FreeObj(ps)
           ps1 == intrusive_ptr_add_ref([ps EXCEPT ![o] = NewPerService(servicename)], o)
       IN [map |-> [map EXCEPT ![servicename] = o],
           ps |-> intrusive_ptr_add_ref(ps1, o),
           ptr |-> o]
  ELSE [map |-> map,
        ps |-> intrusive_ptr_add_ref(ps, map[servicename]),
        ptr |-> map[servicename]]

\* instance(servicename): returns [map, ps, ptr]; the whole call holds the
\* lock on sInstanceMap.
instance(map, ps, servicename) ==
  IF map[servicename] = NoObj
  THEN LET o == FreeObj(ps)
           ps1 == intrusive_ptr_add_ref([ps EXCEPT ![o] = NewPerService(servicename)], o)
       IN [map |-> [map EXCEPT ![servicename] = o],
           ps |-> intrusive_ptr_add_ref(ps1, o),
           ptr |-> o]
  ELSE [map |-> map,
        ps |-> intrusive_ptr_add_ref(ps, map[servicename]),
        ptr |-> map[servicename]]

\* release(), first part (line 214 and 217-220, 253): before sInstanceMap is
\* locked.  Returns the request record and the heap.
release_unlocked(ps, r, stopped) ==
  IF exactly_two_left(ps[r.ps])
  THEN IF stopped
       THEN [ps |-> ps, r |-> r]
       ELSE [ps |-> ps, r |-> [r EXCEPT !.rel = TRUE]]
  ELSE [ps |-> intrusive_ptr_release(ps, r.ps), r |-> [r EXCEPT !.ps = NoObj]]

\* A faulty variant of release that does not recheck exactly_two_left under
\* the lock.
release_locked_without_recheck(map, ps, r) ==
  IF \E n \in ServiceNames : map[n] = r.ps
  THEN LET n == CHOOSE m \in ServiceNames : map[m] = r.ps
       IN [map |-> [map EXCEPT ![n] = NoObj],
           ps |-> intrusive_ptr_release(intrusive_ptr_release(ps, r.ps), r.ps),
           r |-> [r EXCEPT !.rel = FALSE, !.ps = NoObj],
           erased |-> TRUE]
  ELSE [map |-> map,
        ps |-> intrusive_ptr_release(ps, r.ps),
        r |-> [r EXCEPT !.rel = FALSE, !.ps = NoObj],
        erased |-> FALSE]

\* release(), second part (lines 221-253): with sInstanceMap locked.
release_locked(map, ps, r) ==
  IF ~exactly_two_left(ps[r.ps])
  THEN [map |-> map, ps |-> ps, r |-> [r EXCEPT !.rel = FALSE], erased |-> FALSE]
  ELSE IF \E n \in ServiceNames : map[n] = r.ps
       THEN LET n == CHOOSE m \in ServiceNames : map[m] = r.ps
            IN [map |-> [map EXCEPT ![n] = NoObj],
                ps |-> intrusive_ptr_release(intrusive_ptr_release(ps, r.ps), r.ps),
                r |-> [r EXCEPT !.rel = FALSE, !.ps = NoObj],
                erased |-> TRUE]
       ELSE [map |-> map,
             ps |-> intrusive_ptr_release(ps, r.ps),
             r |-> [r EXCEPT !.rel = FALSE, !.ps = NoObj],
             erased |-> FALSE]

(***************************************************************************)
(* Actions of the service scheduler.  The observers enqueued, cancelled    *)
(* and dispatched are kept only when log is TRUE.                          *)
(***************************************************************************)
Registered == {sInstanceMap[n] : n \in ServiceNames} \ {NoObj}

Glob == [ps |-> perService, tq |-> sTotalQueued, rq |-> easy, log |-> << >>]

Instance(w, n) ==
  /\ easy[w].ps = NoObj
  /\ sInstanceMap[n] = NoObj => HasFreeObj(perService)
  /\ LET r == instance(sInstanceMap, perService, n)
     IN /\ sInstanceMap' = r.map
        /\ perService' = r.ps
        /\ easy' = [easy EXCEPT ![w].ps = r.ptr]
        /\ lastOp' = [op |-> "instance", inserted |-> (sInstanceMap[n] = NoObj)]
  /\ UNCHANGED <<sTotalQueued, enqueued, cancelled, dispatched>>
  /\ UNCHANGED <<uvars, wvars, xvars>>

ReleaseUnlocked(w, stopped) ==
  /\ easy[w].ps # NoObj
  /\ easy[w].st = "idle"
  /\ ~easy[w].rel
  /\ LET r == release_unlocked(perService, easy[w], stopped)
     IN /\ perService' = r.ps
        /\ easy' = [easy EXCEPT ![w] = r.r]
        /\ lastOp' = [op |-> "release", stopped |-> stopped]
  /\ UNCHANGED <<sInstanceMap, sTotalQueued, enqueued, cancelled, dispatched>>
  /\ UNCHANGED <<uvars, wvars, xvars>>

ReleaseLocked(w) ==
  /\ easy[w].rel
  /\ LET r == release_locked(sInstanceMap, perService, easy[w])
     IN /\ sInstanceMap' = r.map
        /\ perService' = r.ps
        /\ easy' = [easy EXCEPT ![w] = r.r]
        /\ lastOp' = [op |-> "release_locked", erased |-> r.erased]
  /\ UNCHANGED <<sTotalQueued, enqueued, cancelled, dispatched>>
  /\ UNCHANGED <<uvars, wvars, xvars>>

Queue(w, c, log) ==
  /\ easy[w].ps # NoObj
  /\ easy[w].st = "idle"
  /\ ~easy[w].rel
  /\ LET o == easy[w].ps
         r == queue(perService[o], sTotalQueued, w, c)
     IN /\ perService' = [perService EXCEPT ![o] = r.s]
        /\ sTotalQueued' = r.tq
        /\ easy' = [easy EXCEPT ![w].st = "queued", ![w].cap = c]
        /\ lastOp' = [op |-> "queue"]
  /\ enqueued' = IF log THEN Append(enqueued, <<w, c>>) ELSE enqueued
  /\ UNCHANGED <<sInstanceMap, cancelled, dispatched>>
  /\ UNCHANGED <<uvars, wvars, xvars>>

Cancel(w, c, log) ==
  /\ easy[w].ps # NoObj
  /\ ~easy[w].rel
  /\ LET o == easy[w].ps
         r == cancel(perService[o], sTotalQueued, w, c)
     IN /\ perService' = [perService EXCEPT ![o] = r.s]
        /\ sTotalQueued' = r.tq
        /\ easy' = IF r.found THEN [easy EXCEPT ![w].st = "idle", ![w].cap = 0] ELSE easy
        /\ lastOp' = [op |-> "cancel", found |-> r.found]
        /\ cancelled' = IF log /\ r.found THEN cancelled \cup {w} ELSE cancelled
  /\ UNCHANGED <<sInstanceMap, enqueued, dispatched>>
  /\ UNCHANGED <<uvars, wvars, xvars>>

\* MultiHandle::add_easy_request(request, from_queue = false) when the request
\* is added at once.
AddEasyRequest(w, c) ==
  /\ easy[w].ps # NoObj
  /\ easy[w].st = "idle"
  /\ ~easy[w].rel
  /\ add_easy_request_accepts(Glob, easy[w].ps, {})
  /\ LET G == add_easy_request([Glob EXCEPT !.rq[w].cap = c], easy[w].ps, w)
     IN /\ perService' = G.ps
        /\ easy' = G.rq
  /\ lastOp' = [op |-> "added_to_multi_handle"]
  /\ UNCHANGED <<sInstanceMap, sTotalQueued, enqueued, cancelled, dispatched>>
  /\ UNCHANGED <<uvars, wvars, xvars>>

RemovedFromMultiHandle(w) ==
  /\ easy[w].st = "added"
  /\ perService' = [perService EXCEPT ![easy[w].ps] =
                      removed_from_multi_handle(@, easy[w].cap, FALSE)]
  /\ easy' = [easy EXCEPT ![w].st = "idle", ![w].cap = 0]
  /\ lastOp' = [op |-> "removed_from_multi_handle"]
  /\ UNCHANGED <<sInstanceMap, sTotalQueued, enqueued, cancelled, dispatched>>
  /\ UNCHANGED <<uvars, wvars, xvars>>

AddQueuedTo(o, bw, log) ==
  /\ o \in Registered
  /\ LET G == add_queued_to(Glob, sInstanceMap, o, FALSE, bw)
     IN /\ perService' = G.ps
        /\ sTotalQueued' = G.tq
        /\ easy' = G.rq
        /\ lastOp' = [op |-> "add_queued_to", o |-> o,
                      sent |-> [i \in 1..Len(G.log) |-> G.log[i][1]]]
        /\ dispatched' = IF log THEN dispatched \o G.log ELSE dispatched
  /\ UNCHANGED <<sInstanceMap, enqueued, cancelled>>
  /\ UNCHANGED <<uvars, wvars, xvars>>

Purge ==
  /\ LET G == purge(Glob, sInstanceMap, 1)
     IN /\ perService' = G.ps
        /\ sTotalQueued' = G.tq
        /\ easy' = G.rq
  /\ lastOp' = [op |-> "purge"]
  /\ UNCHANGED <<sInstanceMap, enqueued, cancelled, dispatched>>
  /\ UNCHANGED <<uvars, wvars, xvars>>

AdjustConcurrentConnections(increment, log) ==
  /\ perService' = adjust_concurrent_connections(perService, sInstanceMap, 1, increment)
  /\ lastOp' = IF log
               THEN [op |-> "adjust_concurrent_connections",
                     increment |-> increment, before |-> perService]
               ELSE [op |-> "adjust_concurrent_connections"]
  /\ UNCHANGED <<sInstanceMap, sTotalQueued, easy, enqueued, cancelled, dispatched>>
  /\ UNCHANGED <<uvars, wvars, xvars>>

(***************************************************************************)
(* Spec: the scheduler.  NumNames services are registered and each of the  *)
(* NumRequests requests holds the handle instance() returned for one of    *)
(* them; requests are queued, cancelled, added to and removed from the     *)
(* multi handle, and the limits are adjusted.                              *)
(***************************************************************************)
SchedRequests == 1..NumRequests

\* The heap after instance(n) was called for every name and by every request.
RECURSIVE Attach(_, _, _)
Attach(ps, svcOf, W) ==
  IF W = {} THEN ps
  ELSE LET w == CHOOSE x \in W : TRUE
       IN Attach(intrusive_ptr_add_ref(ps, svcOf[w]), svcOf, W \ {w})

Init ==
  \E svcOf \in [SchedRequests -> ServiceNames] :
    /\ sInstanceMap = [n \in ServiceNames |-> n]
    /\ perService = Attach([o \in Objs |->
                              [NewPerService(o) EXCEPT !.mReferenceCount = 1]],
                           svcOf, SchedRequests)
    /\ sTotalQueued = [count |-> 0]
    /\ easy = [w \in SchedRequests |-> [IdleRequest EXCEPT !.ps = svcOf[w]]]
    /\ lastOp = NoOp
    /\ enqueued = << >>
    /\ cancelled = {}
    /\ dispatched = << >>
    /\ NoUrl
    /\ NoFetch
    /\ NoExtras

Next ==
  \/ \E w \in SchedRequests, c \in Caps : Queue(w, c, FALSE)
  \/ \E w \in SchedRequests : Cancel(w, easy[w].cap, FALSE)
  \/ \E w \in SchedRequests, c \in Caps : AddEasyRequest(w, c)
  \/ \E w \in SchedRequests : RemovedFromMultiHandle(w)
  \/ \E o \in Objs, bw \in SUBSET Registered : AddQueuedTo(o, bw, FALSE)
  \/ Purge
  \/ \E increment \in Increments : AdjustConcurrentConnections(increment, FALSE)

vars == <<svars, uvars, wvars, xvars>>

Spec == Init /\ [][Next]_vars

(***************************************************************************)
(* SpecReg: the life cycle of the registry.  Requests obtain handles with  *)
(* instance() and drop them with release(); release() runs in two steps,   *)
(* before and after it locks sInstanceMap, and other threads run between.  *)
(***************************************************************************)
RegNext ==
  \/ \E w \in SchedRequests, n \in ServiceNames : Instance(w, n)
  \/ \E w \in SchedRequests, stopped \in BOOLEAN : ReleaseUnlocked(w, stopped)
  \/ \E w \in SchedRequests : ReleaseLocked(w)
  \/ \E w \in SchedRequests, c \in Caps : Queue(w, c, FALSE)
  \/ \E w \in SchedRequests : Cancel(w, easy[w].cap, FALSE)
  \/ \E w \in SchedRequests : RemovedFromMultiHandle(w)
  \/ \E o \in Objs : AddQueuedTo(o, {}, FALSE)

SpecReg == SvcInit /\ [][RegNext]_vars

(***************************************************************************)
(* SpecQueue: one service and NumQueueRequests requests of one capability   *)
(* type, each queued at most once, cancelled, dispatched and removed; the   *)
(* observers record the order of the calls.                                 *)
(***************************************************************************)
QueueRequests == 1..NumQueueRequests

NeverQueued(w) == \A i \in 1..Len(enqueued) : enqueued[i][1] # w

\* All requests of a behaviour use the capability type of the first one.
SameType(c) == IF enqueued = << >> THEN TRUE ELSE enqueued[1][2] = c

QueueInit ==
  /\ sInstanceMap = [n \in ServiceNames |-> IF n = 1 THEN 1 ELSE NoObj]
  /\ perService = [o \in Objs |->
                     IF o = 1
                     THEN [NewPerService(1) EXCEPT
                             !.mReferenceCount = 1 + NumQueueRequests]
                     ELSE FreedPerService]
  /\ sTotalQueued = [count |-> 0]
  /\ easy = [w \in QueueRequests |-> [IdleRequest EXCEPT !.ps = 1]]
  /\ lastOp = NoOp
  /\ enqueued = << >>
  /\ cancelled = {}
  /\ dispatched = << >>
  /\ NoUrl
  /\ NoFetch
  /\ NoExtras

QueueNext ==
  \/ \E w \in QueueRequests, c \in Caps :
       NeverQueued(w) /\ SameType(c) /\ Queue(w, c, TRUE)
  \/ \E w \in QueueRequests : Cancel(w, easy[w].cap, TRUE)
  \/ AddQueuedTo(1, {}, TRUE)
  \/ \E w \in QueueRequests : RemovedFromMultiHandle(w)

SpecQueue == QueueInit /\ [][QueueNext]_vars

(***************************************************************************)
(* SpecFair: a freshly created service whose queues were filled with up to  *)
(* MaxQueued requests per capability type; add_queued_to is called while    *)
(* the service is not throttled, so the transport accepts every request.    *)
(***************************************************************************)
\* The requests queued in capability type c when the sizes are sizes:
\* requests are numbered in the order of the capability types.
QueuedBefore(sizes, c) == SumOver([d \in Caps |-> IF d < c THEN sizes[d] ELSE 0], Caps)

FilledQueue(sizes, c) == [i \in 1..sizes[c] |-> QueuedBefore(sizes, c) + i]

CapOfRequest(sizes, w) ==
  CHOOSE c \in Caps : QueuedBefore(sizes, c) < w /\ w <= QueuedBefore(sizes, c) + sizes[c]

FairInit ==
  \E sizes \in [Caps -> 0..MaxQueued] :
    LET total == SumOver(sizes, Caps)
    IN /\ sInstanceMap = [n \in ServiceNames |-> IF n = 1 THEN 1 ELSE NoObj]
       /\ perService = [o \in Objs |->
                          IF o = 1
                          THEN [NewPerService(1) EXCEPT
                                  !.mReferenceCount = 1 + total,
                                  !.mQueuedRequests =
                                      [c \in Caps |-> FilledQueue(sizes, c)]]
                          ELSE FreedPerService]
       /\ sTotalQueued = [count |-> total]
       /\ easy = [w \in 1..total |->
                    [ps |-> 1, st |-> "queued",
                     cap |-> CapOfRequest(sizes, w), rel |-> FALSE]]
       /\ lastOp = NoOp
       /\ enqueued = << >>
       /\ cancelled = {}
       /\ dispatched = << >>
       /\ NoUrl
       /\ NoFetch
       /\ NoExtras

FairNext ==
  \/ ~throttled(perService[1]) /\ AddQueuedTo(1, {}, TRUE)
  \/ \E w \in DOMAIN easy : RemovedFromMultiHandle(w)

SpecFair == FairInit /\ [][FairNext]_vars

(***************************************************************************)
(* AIPerService::extract_canonical_servicename.  A url is a sequence of     *)
(* characters; pointers into it are positions 1..Len, end is Len + 1 and a  *)
(* null pointer is NullPos.                                                 *)
(***************************************************************************)
NullPos == 0

\* *q for a pointer q: the character at position i; the position after the
\* last character holds the terminator of the string.
CharAt(text, i) == IF i >= 1 /\ i <= Len(text) THEN text[i] ELSE "NUL"

isDigit(c) == c \in {"0", "1", "2", "3", "4", "5", "6", "7", "8", "9"}

\* if (c >= 'A' && c <= 'Z') c += ('a' - 'A'), on the letters the urls use.
ToLower(c) ==
  CASE c = "A" -> "a"
    [] c = "B" -> "b"
    [] c = "H" -> "h"
    [] c = "U" -> "u"
    [] OTHER -> c

\* Lines 177-187: append the character and advance.
AppendAndAdvance(s, c) ==
  [s EXCEPT !.servicename = IF s.p >= s.hostname THEN Append(@, ToLower(c)) ELSE @,
            !.p = s.p + 1]

\* The loop "while (p < end)" (lines 136-188); returns the locals at its end.
RECURSIVE ScanUrl(_, _)
ScanUrl(text, s) ==
  IF ~(s.p < Len(text) + 1) THEN s
  ELSE
    LET c == text[s.p]
    IN IF c = ":"
       THEN LET s1 == IF s.port_colon = NullPos /\ isDigit(CharAt(text, s.p + 1))
                      THEN [s EXCEPT !.port_colon = s.p]
                      ELSE IF /\ s.sheme_colon = NullPos
                              /\ s.sheme_slash = NullPos
                              /\ s.first_ampersand = NullPos
                              /\ s.port_colon = NullPos
                           THEN [s EXCEPT !.sheme_colon = s.p]
                           ELSE s
            IN ScanUrl(text, AppendAndAdvance(s1, c))
       ELSE IF c = "/"
       THEN IF /\ s.sheme_slash = NullPos
               /\ s.sheme_colon # NullPos
               /\ s.sheme_colon = s.p - 1
               /\ s.first_ampersand = NullPos
               /\ CharAt(text, s.p + 1) = "/"
            THEN LET s1 == [s EXCEPT !.sheme_slash = s.p,
                                     !.p = s.p + 1,
                                     !.hostname = s.p + 2,
                                     !.servicename = << >>]
                 IN ScanUrl(text, AppendAndAdvance(s1, c))
            ELSE s                                           \* break
       ELSE IF c = "@"
       THEN LET s1 == IF s.first_ampersand = NullPos
                      THEN [s EXCEPT !.first_ampersand = s.p,
                                     !.hostname = s.p + 1,
                                     !.servicename = << >>]
                      ELSE s
            IN ScanUrl(text, AppendAndAdvance(s1, c))
       ELSE ScanUrl(text, AppendAndAdvance(s, c))

extract_canonical_servicename(text) ==
  LET s == ScanUrl(text, [p |-> 1,
                          sheme_colon |-> NullPos,
                          sheme_slash |-> NullPos,
                          first_ampersand |-> NullPos,
                          port_colon |-> NullPos,
                          hostname |-> 1,
                          servicename |-> << >>])
  IN IF /\ s.port_colon # NullPos
        /\ s.p - 3 = s.port_colon
        /\ CharAt(text, s.p - 1) = "0"
        /\ CharAt(text, s.p - 2) = "8"
     THEN SubSeq(s.servicename, 1, s.p - s.hostname - 3)
     ELSE s.servicename

(***************************************************************************)
(* SpecUrl: extract_canonical_servicename is applied to a url of the form   *)
(* [scheme://][userinfo@]host[:port][/path] built from a few parts.         *)
(***************************************************************************)
Schemes == { << >>, <<"h", ":", "/", "/">>, <<"H", ":", "/", "/">> }

UserInfos == { << >>,
               <<"u", "@">>,
               <<"U", ":", "p", "@">>,
               <<"u", ":", "1", "@">> }

RECURSIVE SeqsUpTo(_, _)
SeqsUpTo(S, n) ==
  IF n = 0 THEN { << >> }
  ELSE LET shorter == SeqsUpTo(S, n - 1)
       IN shorter \cup {Append(q, x) : q \in shorter, x \in S}

Hosts == SeqsUpTo({"a", "B"}, MaxHostLen) \ { << >> }

Ports == { << >>, <<":", "8", "0">>, <<":", "8">>, <<":", "4", "4", "3">> }

Paths == { << >>, <<"/">>, <<"/", "x">>, <<"/", ":", "8", "0">> }

UrlInit ==
  /\ NoServices
  /\ NoFetch
  /\ NoExtras
  /\ \E sc \in Schemes, ui \in UserInfos, h \in Hosts, po \in Ports, pa \in Paths :
       url = [scheme |-> sc, userinfo |-> ui, host |-> h, port |-> po, path |-> pa,
              text |-> sc \o ui \o h \o po \o pa]
  /\ canonical = [done |-> FALSE, name |-> << >>]
  /\ threads = [t \in Threads |-> Idle]

ExtractCanonicalServicename ==
  /\ ~canonical.done
  /\ canonical' = [done |-> TRUE, name |-> extract_canonical_servicename(url.text)]
  /\ UNCHANGED <<svars, url, threads, wvars, xvars>>

UrlNext == ExtractCanonicalServicename

SpecUrl == UrlInit /\ [][UrlNext]_vars

(***************************************************************************)
(* The texture fetch worker (LLTextureFetchWorker) and the part of         *)
(* LLTextureFetch that creates, polls and deletes it.  One texture id is   *)
(* modelled.  Sizes are counted in units of TEXTURE_CACHE_ENTRY_SIZE.      *)
(*                                                                         *)
(* Not modelled: priorities other than mImagePriority (setPriority only    *)
(* reorders the run queue, and the model lets any worker with work run),   *)
(* the timers, the statistics, mActiveCount, the aux image, the debug      *)
(* settings (mDebugPause and TextureDecodeDisabled are FALSE) and the      *)
(* shutdown of the fetch thread (isQuitting).  Simulator packets arrive in *)
(* SpecSim and SpecFallback only: elsewhere a worker that queued itself on *)
(* the network queue waits in LOAD_FROM_NETWORK.  A worker that            *)
(* removeRequest scheduled for deletion is followed in SpecDelete only: it *)
(* has left the request map, and its remaining steps touch neither the map *)
(* nor the queues.  The texture is not one of the local textures of the    *)
(* viewer (the cache reports islocal = FALSE), and of each kind of         *)
(* responder at most one is outstanding.                                   *)
(***************************************************************************)
e_state ==
  <<"INVALID", "INIT", "LOAD_FROM_TEXTURE_CACHE", "CACHE_POST",
    "LOAD_FROM_NETWORK", "LOAD_FROM_SIMULATOR", "SEND_HTTP_REQ",
    "WAIT_HTTP_REQ", "DECODE_IMAGE", "DECODE_IMAGE_UPDATE", "WRITE_TO_CACHE",
    "WAIT_ON_WRITE", "DONE">>

\* The value of an enumerator of e_state (INVALID = 0).
StateNo(st) == (CHOOSE i \in 1..Len(e_state) : e_state[i] = st) - 1

Discards == 0..MaxDiscard
Sizes == 0..MaxSize
UrlKinds == {"", "file", "http"}
Max(a, b) == IF a > b THEN a ELSE b

\* A formatted image: null, or an image holding size units of data.
NullImage == [notNull |-> FALSE, size |-> 0]
Image(size) == [notNull |-> TRUE, size |-> size]
getDataSize(img) == IF img.notNull THEN img.size ELSE 0

(***************************************************************************)
(* LLWorkerClass, as far as the worker uses it: addWork hands the worker   *)
(* to the fetch pool, the pool calls doWork until it returns true, and     *)
(* checkWork collects a completed piece of work.                           *)
(***************************************************************************)
haveWork(w) == w.haveWork
wasAborted(w) == w.aborted
addWork(w) == [w EXCEPT !.haveWork = TRUE, !.complete = FALSE]

\* LLTextureFetchWorker::LLTextureFetchWorker, before setDesiredDiscard.
NewWorker(kind, priority) ==
  [exists |-> TRUE, mState |-> "INIT", mWriteToCacheState |-> "NOT_WRITE",
   mUrl |-> kind, mImagePriority |-> priority,
   mDesiredDiscard |-> -1, mRequestedDiscard |-> -1, mLoadedDiscard |-> -1,
   mDecodedDiscard |-> -1, mCacheReadHandle |-> FALSE,
   mCacheWriteHandle |-> FALSE, mRequestedSize |-> 0, mRequestedOffset |-> 0,
   mDesiredSize |-> TEXTURE_CACHE_ENTRY_SIZE,
   mCachedSize |-> 0, mLoaded |-> FALSE, mSentRequest |-> "UNSENT",
   mDecodeHandle |-> FALSE, mDecoded |-> FALSE, mWritten |-> FALSE,
   mHaveAllData |-> FALSE, mInLocalCache |-> FALSE, mCanUseHTTP |-> TRUE,
   mCanUseNET |-> (kind = ""), mHTTPFailCount |-> 0, mRetryAttempt |-> 0,
   mGetStatus |-> 0, mRawImage |-> FALSE, mFormattedImage |-> NullImage,
   mHttpBuffer |-> 0, mFileSize |-> 0, mPackets |-> << >>,
   mTotalPackets |-> 0, mLastPacket |-> -1, mFirstPacket |-> 0,
   mSimRequestedDiscard |-> -1,
   haveWork |-> TRUE, complete |-> FALSE,
   aborted |-> FALSE, deleteRequested |-> FALSE]

\* A faulty variant of setImagePriority that restarts a worker that is DONE.
setImagePriority_restarting(w, priority) ==
  [w EXCEPT !.mImagePriority = priority,
            !.mState = IF w.mState = "DONE" THEN "INIT" ELSE @]

\* fabs(a - b).
fabs(a, b) == IF a > b THEN a - b ELSE b - a

\* setImagePriority(): the work priority follows; mState is not assigned.
setImagePriority(w, priority) ==
  IF fabs(priority, w.mImagePriority) * 100 > w.mImagePriority * 5
     \/ w.mState = "DONE"
  THEN [w EXCEPT !.mImagePriority = priority]
  ELSE w

\* setDesiredDiscard(discard, size).
setDesiredDiscard(w, discard, size) ==
  LET changed == w.mDesiredDiscard # discard
      w1 == IF changed /\ ~haveWork(w) THEN addWork(w) ELSE w
      prioritize ==
        IF changed THEN haveWork(w) /\ w.mDesiredDiscard < discard
        ELSE size > w.mDesiredSize
      w2 == IF changed
            THEN [w1 EXCEPT !.mDesiredDiscard = discard, !.mDesiredSize = size]
            ELSE IF size > w.mDesiredSize
                 THEN [w1 EXCEPT !.mDesiredSize = size]
                 ELSE w1
      w3 == [w2 EXCEPT !.mDesiredSize = Max(@, TEXTURE_CACHE_ENTRY_SIZE)]
  IN  IF (prioritize /\ w3.mState = "INIT") \/ w3.mState = "DONE"
      THEN [w3 EXCEPT !.mState = "INIT"]
      ELSE w3

\* setCanUseHTTP().
setCanUseHTTP(w, can_use_http) == [w EXCEPT !.mCanUseHTTP = can_use_http]

\* clearPackets().  mPackets[i + 1] is the size of packet i, 0 for a null
\* pointer.
clearPackets(w) ==
  [w EXCEPT !.mPackets = << >>, !.mTotalPackets = 0, !.mLastPacket = -1,
            !.mFirstPacket = 0]

\* resetFormattedData().
resetFormattedData(w) ==
  [w EXCEPT !.mHttpBuffer = 0,
            !.mFormattedImage = IF @.notNull THEN Image(0) ELSE @,
            !.mHaveAllData = FALSE]

\* Integer division of C++, which truncates towards zero.
div(a, b) == IF a >= 0 THEN a \div b ELSE -((-a) \div b)

\* setupPacketData().  removeFromCache() changes the texture cache only.
setupPacketData(w) ==
  LET data_size == getDataSize(w.mFormattedImage)
      first == div(data_size - FIRST_PACKET_SIZE, MAX_IMG_PACKET_SIZE) + 1
  IN  IF data_size <= 0 THEN w
      ELSE IF FIRST_PACKET_SIZE + (first - 1) * MAX_IMG_PACKET_SIZE # data_size
      THEN clearPackets(resetFormattedData(w))
      ELSE IF w.mFileSize > 0
      THEN [w EXCEPT !.mFirstPacket = first, !.mLastPacket = first - 1,
                     !.mTotalPackets =
                        div(w.mFileSize - FIRST_PACKET_SIZE
                              + MAX_IMG_PACKET_SIZE - 1,
                            MAX_IMG_PACKET_SIZE) + 1]
      ELSE clearPackets(resetFormattedData(w))

\* The loop at the end of insertPacket: mLastPacket after it.
RECURSIVE last_present(_, _)
last_present(packets, last) ==
  IF last + 1 < Len(packets) /\ packets[last + 2] # 0
  THEN last_present(packets, last + 1)
  ELSE last

\* A faulty variant of insertPacket that stores a packet it already has and
\* one of any size.
insertPacket_unchecked(w, index, size) ==
  IF index >= w.mTotalPackets THEN <<FALSE, w>>
  ELSE
    LET resized == IF index >= Len(w.mPackets)
                   THEN w.mPackets \o [i \in 1..(index + 1 - Len(w.mPackets)) |-> 0]
                   ELSE w.mPackets
        stored == [resized EXCEPT ![index + 1] = size]
    IN  <<TRUE, [w EXCEPT !.mPackets = stored,
                          !.mLastPacket = last_present(stored, w.mLastPacket)]>>

\* A faulty variant of insertPacket that takes the highest index stored for
\* mLastPacket.
insertPacket_last_is_highest(w, index, size) ==
  IF index >= w.mTotalPackets THEN <<FALSE, w>>
  ELSE IF index > 0 /\ index < w.mTotalPackets - 1 /\ size # MAX_IMG_PACKET_SIZE
  THEN <<FALSE, w>>
  ELSE IF index < Len(w.mPackets) /\ w.mPackets[index + 1] # 0
  THEN <<FALSE, w>>
  ELSE
    LET resized == IF index >= Len(w.mPackets)
                   THEN w.mPackets \o [i \in 1..(index + 1 - Len(w.mPackets)) |-> 0]
                   ELSE w.mPackets
        stored == [resized EXCEPT ![index + 1] = size]
    IN  <<TRUE, [w EXCEPT !.mPackets = stored,
                          !.mLastPacket = Max(@, index)]>>

\* insertPacket(index, data, size): <<result, worker>>.
insertPacket(w, index, size) ==
  IF index >= w.mTotalPackets THEN <<FALSE, w>>
  ELSE IF index > 0 /\ index < w.mTotalPackets - 1 /\ size # MAX_IMG_PACKET_SIZE
  THEN <<FALSE, w>>
  ELSE IF index < Len(w.mPackets) /\ w.mPackets[index + 1] # 0
  THEN <<FALSE, w>>
  ELSE
    LET resized == IF index >= Len(w.mPackets)
                   THEN w.mPackets \o [i \in 1..(index + 1 - Len(w.mPackets)) |-> 0]
                   ELSE w.mPackets
        stored == [resized EXCEPT ![index + 1] = size]
    IN  <<TRUE, [w EXCEPT !.mPackets = stored,
                          !.mLastPacket = last_present(stored, w.mLastPacket)]>>

\* mPackets[i]->mSize, 0 for a null pointer or an index beyond the vector.
PacketSize(w, i) == IF i + 1 \in 1..Len(w.mPackets) THEN w.mPackets[i + 1] ELSE 0

\* processSimulatorPackets(): [res, w, crashed]; crashed when the
\* llassert_always on mPackets[i] fails.
processSimulatorPackets(w) ==
  LET cur_size == getDataSize(w.mFormattedImage)
      run == w.mFirstPacket..w.mLastPacket
      buffer_size == cur_size + SumOver([i \in run |-> PacketSize(w, i)], run)
      have_all_data == w.mLastPacket >= w.mTotalPackets - 1
      out(res, w2) == [res |-> res, w |-> w2, crashed |-> FALSE]
  IN  IF ~w.mFormattedImage.notNull \/ w.mRequestedSize < 0
      THEN out(TRUE, [w EXCEPT !.mFormattedImage = NullImage])
      ELSE IF w.mLastPacket < w.mFirstPacket THEN out(FALSE, w)
      ELSE IF \E i \in run : PacketSize(w, i) = 0
      THEN [res |-> FALSE, w |-> w, crashed |-> TRUE]
      ELSE IF w.mRequestedSize <= 0 THEN out(TRUE, w)
      ELSE IF buffer_size >= w.mRequestedSize \/ have_all_data
      THEN out(TRUE,
               [w EXCEPT !.mHaveAllData = IF have_all_data THEN TRUE ELSE @,
                         !.mFormattedImage = IF buffer_size > cur_size
                                             THEN Image(buffer_size) ELSE @,
                         !.mLoadedDiscard = w.mRequestedDiscard])
      ELSE out(FALSE, w)

(***************************************************************************)
(* The network queue and the cancel queue of LLTextureFetch, for the one   *)
(* texture id: mNetworkQueue tells whether the id is queued, mCancelQueue  *)
(* is the set of hosts whose cancel set holds the id.  The hosts are       *)
(* "mHost", the host of the worker, and "other".                           *)
(***************************************************************************)
SimHosts == {"mHost", "other"}

\* addToNetworkQueue(worker), the worker being in the request map.
addToNetworkQueue(f) == [f EXCEPT !.mNetworkQueue = TRUE, !.mCancelQueue = {}]

\* removeFromNetworkQueue(worker, cancel).
removeFromNetworkQueue(f, cancel_) ==
  [f EXCEPT !.mNetworkQueue = FALSE,
            !.mCancelQueue = IF cancel_ /\ f.mNetworkQueue
                             THEN @ \cup {"mHost"} ELSE @]

(***************************************************************************)
(* doWork().  The function is a sequence of blocks "if (mState == X)"; a   *)
(* block returns or falls through to the blocks below it.  C is the record *)
(* [w, f, ret, end, wrote, blacklist_add]: the worker, the fetcher, the    *)
(* returned value ("run" while the function has not returned), the branch  *)
(* that returned, the data size and file size of a call of writeToCache,   *)
(* and whether SGHostBlackList::add was called with mUrl.                  *)
(***************************************************************************)
Return(C, w, r, e) == [C EXCEPT !.w = w, !.ret = r, !.end = e]
FallThrough(C, w) == [C EXCEPT !.w = w]
Running(C, st) == C.ret = "run" /\ C.w.mState = st

\* The tests before the first block (lines 1617-1640).
doWork_abort(C) ==
  LET w == C.w
  IN  IF w.deleteRequested /\ StateNo(w.mState) < StateNo("DECODE_IMAGE")
      THEN Return(C, w, "true", "abort_delete")
      ELSE IF w.mImagePriority < F_ALMOST_ZERO
              /\ w.mState \in {"INIT", "LOAD_FROM_NETWORK", "LOAD_FROM_SIMULATOR"}
      THEN Return(C, w, "true", "abort_priority")
      ELSE IF StateNo(w.mState) > StateNo("CACHE_POST")
              /\ ~w.mCanUseNET /\ ~w.mCanUseHTTP
      THEN Return(C, w, "true", "abort_nowhere")
      ELSE C

\* A faulty variant of the INIT block that keeps the raw image and the
\* decoded discard of the pass before.
doWork_INIT_keeping_raw(C) ==
  IF ~Running(C, "INIT") THEN C
  ELSE IF C.f.mBlackListedAsset
  THEN Return(C, [C.w EXCEPT !.mState = "DONE"], "true", "blacklisted")
  ELSE FallThrough(C, [C.w EXCEPT !.mState = "LOAD_FROM_TEXTURE_CACHE"])

\* if (mState == INIT), lines 1651-1683.
doWork_INIT(C) ==
  IF ~Running(C, "INIT") THEN C
  ELSE IF C.f.mBlackListedAsset
  THEN Return(C, [C.w EXCEPT !.mState = "DONE"], "true", "blacklisted")
  ELSE FallThrough(C,
         [clearPackets(C.w)
             EXCEPT !.mRawImage = FALSE, !.mRequestedDiscard = -1,
                     !.mLoadedDiscard = -1, !.mDecodedDiscard = -1,
                     !.mRequestedSize = 0, !.mRequestedOffset = 0,
                     !.mFileSize = 0,
                     !.mCachedSize = 0, !.mLoaded = FALSE,
                     !.mSentRequest = "UNSENT", !.mDecoded = FALSE,
                     !.mWritten = FALSE, !.mHttpBuffer = 0,
                     !.mHaveAllData = FALSE, !.mCacheReadHandle = FALSE,
                     !.mCacheWriteHandle = FALSE,
                     !.mState = "LOAD_FROM_TEXTURE_CACHE",
                     !.mDesiredSize = Max(@, TEXTURE_CACHE_ENTRY_SIZE)])

\* if (mState == LOAD_FROM_TEXTURE_CACHE), lines 1685-1755.
doWork_LOAD_FROM_TEXTURE_CACHE(C, in) ==
  IF ~Running(C, "LOAD_FROM_TEXTURE_CACHE") THEN C
  ELSE
    LET w == C.w
        offset == getDataSize(w.mFormattedImage)
        size == w.mDesiredSize - offset
        wr == [w EXCEPT !.mFileSize = 0, !.mLoaded = FALSE]
        reads == w.mUrl = "file" \/ w.mUrl = ""
        \* after "if (mCacheReadHandle == nullHandle()) { ... }"
        w1 == IF w.mCacheReadHandle THEN w
              ELSE IF reads THEN [wr EXCEPT !.mCacheReadHandle = TRUE]
              ELSE IF w.mCanUseHTTP THEN [wr EXCEPT !.mState = "SEND_HTTP_REQ"]
              ELSE [wr EXCEPT !.mState = "LOAD_FROM_NETWORK"]
        C1 == IF ~w.mCacheReadHandle /\ reads
              THEN [C EXCEPT !.f.cacheRead = TRUE]
              ELSE C
    IN  IF ~w.mCacheReadHandle /\ size <= 0
        THEN Return(C, [w EXCEPT !.mState = "CACHE_POST"], "false", "wait")
        ELSE IF ~w1.mLoaded THEN Return(C1, w1, "false", "wait")
        ELSE IF in.read_complete
        THEN FallThrough(C1, [w1 EXCEPT !.mCacheReadHandle = FALSE,
                                        !.mState = "CACHE_POST"])
        ELSE Return(C1, w1, "false", "wait")

\* if (mState == CACHE_POST), lines 1757-1794.
doWork_CACHE_POST(C) ==
  IF ~Running(C, "CACHE_POST") THEN C
  ELSE
    LET w == [C.w EXCEPT !.mCachedSize = getDataSize(C.w.mFormattedImage)]
    IN  IF w.mCachedSize >= w.mDesiredSize \/ w.mHaveAllData
        THEN IF getDataSize(w.mFormattedImage) > 0
             THEN FallThrough(C, [w EXCEPT !.mLoadedDiscard = w.mDesiredDiscard,
                                           !.mState = "DECODE_IMAGE",
                                           !.mWriteToCacheState = "NOT_WRITE"])
             ELSE Return([C EXCEPT !.f.crashed = TRUE], w, "true", "llerrs")
        ELSE IF w.mUrl = "file"
        THEN Return(C, w, "true", "file_miss")
        ELSE FallThrough(C, [w EXCEPT !.mState = "LOAD_FROM_NETWORK"])

\* if (mState == LOAD_FROM_NETWORK), lines 1796-1860.
doWork_LOAD_FROM_NETWORK(C, in) ==
  IF ~Running(C, "LOAD_FROM_NETWORK") THEN C
  ELSE
    LET w == C.w
        w1 == IF in.use_http /\ w.mCanUseHTTP /\ w.mUrl = ""
              THEN IF in.region = "url"
                   THEN [w EXCEPT !.mUrl = "http",
                                  !.mWriteToCacheState = "CAN_WRITE"]
                   ELSE [w EXCEPT !.mCanUseHTTP = FALSE]
              ELSE w
        w2 == IF w1.mUrl # "" /\ in.host_blacklisted
              THEN [w1 EXCEPT !.mCanUseHTTP = FALSE]
              ELSE w1
    IN  IF w2.mCanUseHTTP /\ w2.mUrl # ""
        THEN FallThrough(C,
               [w2 EXCEPT !.mState = "SEND_HTTP_REQ",
                          !.mWriteToCacheState =
                             IF @ # "NOT_WRITE" THEN "CAN_WRITE" ELSE @])
        ELSE IF w2.mSentRequest = "UNSENT" /\ w2.mCanUseNET
        THEN Return([C EXCEPT !.f = addToNetworkQueue(C.f)],
                    [w2 EXCEPT !.mWriteToCacheState = "CAN_WRITE",
                               !.mRequestedSize = w2.mDesiredSize,
                               !.mRequestedDiscard = w2.mDesiredDiscard,
                               !.mSentRequest = "QUEUED"],
                    "false", "wait")
        ELSE Return(C, w2, "false", "wait")

\* if (mState == LOAD_FROM_SIMULATOR), lines 1864-1889.
doWork_LOAD_FROM_SIMULATOR(C) ==
  IF ~Running(C, "LOAD_FROM_SIMULATOR") THEN C
  ELSE
    LET w == [C.w EXCEPT !.mFormattedImage = IF @.notNull THEN @ ELSE Image(0)]
        r == processSimulatorPackets(w)
        Cq == [C EXCEPT !.f = removeFromNetworkQueue(C.f, FALSE)]
    IN  IF r.crashed
        THEN Return([C EXCEPT !.f.crashed = TRUE], w, "true", "llerrs")
        ELSE IF ~r.res
        THEN Return([C EXCEPT !.f = addToNetworkQueue(C.f)], r.w, "false", "wait")
        ELSE IF getDataSize(r.w.mFormattedImage) = 0
        THEN Return(Cq, r.w, "true", "sim_failed")
        ELSE Return(Cq, [r.w EXCEPT !.mState = "DECODE_IMAGE",
                                    !.mWriteToCacheState = "SHOULD_WRITE"],
                    "false", "sim_data")

\* getNumHTTPRequests(): the size of mHTTPTextureQueue, other_http ids
\* besides the one of the worker.
getNumHTTPRequests(f, other_http) ==
  other_http + (IF f.mHTTPTextureQueue THEN 1 ELSE 0)

\* A faulty variant of the test: the request also waits at the limits.
http_has_to_wait_at_limits(num_http_requests, texture_bandwidth) ==
  \/ num_http_requests >= max_http_requests
  \/ /\ texture_bandwidth >= throttle_bandwidth
     /\ num_http_requests >= min_http_requests

\* The test of lines 1905-1907: the request has to wait.
http_has_to_wait(num_http_requests, texture_bandwidth) ==
  \/ num_http_requests >= max_http_requests
  \/ /\ texture_bandwidth > throttle_bandwidth
     /\ num_http_requests > min_http_requests

\* if (mState == SEND_HTTP_REQ), lines 1891-1994.
doWork_SEND_HTTP_REQ(C, in) ==
  IF ~Running(C, "SEND_HTTP_REQ") THEN C
  ELSE
    LET w == C.w
        cur_size == getDataSize(w.mFormattedImage)
        Cq == [C EXCEPT !.f = removeFromNetworkQueue(C.f, FALSE)]
        w1 == [w EXCEPT !.mRequestedSize = w.mDesiredSize - cur_size,
                        !.mRequestedDiscard = w.mDesiredDiscard,
                        !.mRequestedOffset = cur_size]
        w2 == [w1 EXCEPT !.mLoaded = FALSE, !.mGetStatus = 0,
                         !.mState = "WAIT_HTTP_REQ",
                         !.mRequestedSize =
                            IF w1.mRequestedOffset > 0 THEN @ + 1 ELSE @,
                         !.mRequestedOffset = IF @ > 0 THEN @ - 1 ELSE @]
    IN  IF ~w.mCanUseHTTP THEN Return(C, w, "true", "abort_no_http")
        ELSE IF http_has_to_wait(getNumHTTPRequests(C.f, in.other_http),
                                 in.texture_bandwidth)
        THEN Return(C, w, "false", "http_wait")
        ELSE IF w.mFormattedImage.notNull /\ in.fmt_discard = 0
        THEN IF cur_size > 0
             THEN Return(Cq, [w EXCEPT !.mLoadedDiscard = in.fmt_discard,
                                       !.mState = "DECODE_IMAGE"],
                         "false", "wait")
             ELSE Return(Cq, w, "true", "abort_empty_image")
        ELSE IF w.mUrl = ""
        THEN Return(Cq, [resetFormattedData(w1) EXCEPT !.mHTTPFailCount = @ + 1],
                    "true", "http_not_sent")
        ELSE FallThrough([Cq EXCEPT !.f.mHTTPTextureQueue = TRUE,
                                    !.f.httpGet = TRUE], w2)

\* A faulty variant that falls back without clearing mCanUseHTTP.
doWork_http_failed_keeping_http(C, in) ==
  LET w == C.w
      not_found == w.mGetStatus = HTTP_NOT_FOUND \/ w.mGetStatus = 499
      wf == [w EXCEPT !.mHTTPFailCount = IF not_found THEN 1 ELSE @ + 1]
  IN  IF w.mCanUseNET
      THEN Return(C, [resetFormattedData(wf) EXCEPT !.mState = "INIT"],
                  "false", "wait")
      ELSE Return(C, [resetFormattedData(wf) EXCEPT !.mState = "DONE"],
                  "true", "http_not_found")

\* A faulty variant that retries once more when the count reaches the cap.
doWork_http_failed_retrying_at_cap(C, in) ==
  LET w == C.w
      cur_size == getDataSize(w.mFormattedImage)
      not_found == w.mGetStatus = HTTP_NOT_FOUND \/ w.mGetStatus = 499
      fail == IF not_found THEN 1 ELSE w.mHTTPFailCount + 1
      max_attempts ==
        IF not_found THEN 1
        ELSE IF w.mGetStatus = HTTP_SERVICE_UNAVAILABLE THEN fail + 1
        ELSE HTTP_MAX_RETRY_COUNT + 2
      wf == [w EXCEPT !.mHTTPFailCount = fail]
      udp == [resetFormattedData(wf) EXCEPT !.mState = "INIT",
                                            !.mCanUseHTTP = FALSE]
      Cb == [C EXCEPT !.blacklist_add = (w.mGetStatus = 499)]
  IN  IF not_found
      THEN IF w.mCanUseNET
           THEN Return(Cb, udp, "false", "wait")
           ELSE Return(Cb, resetFormattedData(wf), "true", "http_not_found")
      ELSE IF fail >= max_attempts
      THEN IF cur_size > 0 /\ fail < max_attempts + 1
           THEN Return(C, [wf EXCEPT !.mLoadedDiscard = in.fmt_discard,
                                     !.mState = "DECODE_IMAGE"],
                       "false", "wait")
           ELSE IF w.mCanUseNET
           THEN Return(C, udp, "false", "wait")
           ELSE Return(C, [resetFormattedData(wf) EXCEPT !.mState = "DONE"],
                       "true", "http_retries")
      ELSE Return(C, [wf EXCEPT !.mState = "SEND_HTTP_REQ"], "false", "wait")

\* A faulty variant that gives up on a busy server as on any other failure.
doWork_http_failed_busy_capped(C, in) ==
  LET w == C.w
      cur_size == getDataSize(w.mFormattedImage)
      not_found == w.mGetStatus = HTTP_NOT_FOUND \/ w.mGetStatus = 499
      fail == IF not_found THEN 1 ELSE w.mHTTPFailCount + 1
      max_attempts == IF not_found THEN 1 ELSE HTTP_MAX_RETRY_COUNT + 1
      wf == [w EXCEPT !.mHTTPFailCount = fail]
      udp == [resetFormattedData(wf) EXCEPT !.mState = "INIT",
                                            !.mCanUseHTTP = FALSE]
      Cb == [C EXCEPT !.blacklist_add = (w.mGetStatus = 499)]
  IN  IF not_found
      THEN IF w.mCanUseNET
           THEN Return(Cb, udp, "false", "wait")
           ELSE Return(Cb, resetFormattedData(wf), "true", "http_not_found")
      ELSE IF fail >= max_attempts
      THEN IF cur_size > 0 /\ fail < max_attempts + 1
           THEN Return(C, [wf EXCEPT !.mLoadedDiscard = in.fmt_discard,
                                     !.mState = "DECODE_IMAGE"],
                       "false", "wait")
           ELSE IF w.mCanUseNET
           THEN Return(C, udp, "false", "wait")
           ELSE Return(C, [resetFormattedData(wf) EXCEPT !.mState = "DONE"],
                       "true", "http_retries")
      ELSE Return(C, [wf EXCEPT !.mState = "SEND_HTTP_REQ"], "false", "wait")

\* The branch of WAIT_HTTP_REQ for a failed request (mRequestedSize < 0),
\* lines 2002-2085.
doWork_http_failed(C, in) ==
  LET w == C.w
      cur_size == getDataSize(w.mFormattedImage)
      not_found == w.mGetStatus = HTTP_NOT_FOUND \/ w.mGetStatus = 499
      fail == IF not_found THEN 1 ELSE w.mHTTPFailCount + 1
      max_attempts ==
        IF not_found THEN 1
        ELSE IF w.mGetStatus = HTTP_SERVICE_UNAVAILABLE THEN fail + 1
        ELSE HTTP_MAX_RETRY_COUNT + 1
      wf == [w EXCEPT !.mHTTPFailCount = fail]
      udp == [resetFormattedData(wf) EXCEPT !.mState = "INIT",
                                            !.mCanUseHTTP = FALSE]
      Cb == [C EXCEPT !.blacklist_add = (w.mGetStatus = 499)]
  IN  IF not_found
      THEN IF w.mCanUseNET
           THEN Return(Cb, udp, "false", "wait")
           ELSE Return(Cb, resetFormattedData(wf), "true", "http_not_found")
      ELSE IF fail >= max_attempts
      THEN IF cur_size > 0 /\ fail < max_attempts + 1
           THEN Return(C, [wf EXCEPT !.mLoadedDiscard = in.fmt_discard,
                                     !.mState = "DECODE_IMAGE"],
                       "false", "wait")
           ELSE IF w.mCanUseNET
           THEN Return(C, udp, "false", "wait")
           ELSE Return(C, [resetFormattedData(wf) EXCEPT !.mState = "DONE"],
                       "true", "http_retries")
      ELSE Return(C, [wf EXCEPT !.mState = "SEND_HTTP_REQ"], "false", "wait")

\* if (mState == WAIT_HTTP_REQ), lines 1996-2170.
doWork_WAIT_HTTP_REQ(C, in) ==
  IF ~Running(C, "WAIT_HTTP_REQ") THEN C
  ELSE
    LET w == C.w
        cur_size == getDataSize(w.mFormattedImage)
        realign == w.mRequestedOffset # 0 /\ w.mRequestedOffset # cur_size
        src_offset == IF realign THEN cur_size - w.mRequestedOffset ELSE 0
        requested == w.mRequestedSize - src_offset
        total_size == cur_size + requested
    IN  IF ~w.mLoaded
        THEN IF in.timeout
             THEN Return(C, [w EXCEPT !.mState = "DONE"], "true", "http_timeout")
             ELSE Return(C, w, "false", "wait")
        ELSE IF w.mRequestedSize < 0 THEN doWork_http_failed(C, in)
        ELSE IF w.mHttpBuffer = 0
        THEN Return(C, [w EXCEPT !.mState = "DONE"], "true", "http_empty")
        ELSE IF realign /\ w.mRequestedOffset > cur_size
        THEN Return(C, [w EXCEPT !.mState = "DONE"], "true", "http_break")
        ELSE Return(C,
               [w EXCEPT !.mRequestedSize = requested,
                         !.mRequestedOffset = @ + src_offset,
                         !.mFormattedImage = Image(total_size),
                         !.mFileSize =
                            IF w.mHaveAllData /\ w.mRequestedDiscard = 0
                            THEN total_size ELSE total_size + 1,
                         !.mHttpBuffer = 0,
                         !.mLoadedDiscard = w.mRequestedDiscard,
                         !.mState = "DECODE_IMAGE",
                         !.mWriteToCacheState =
                            IF @ # "NOT_WRITE" THEN "SHOULD_WRITE" ELSE @],
               "false", "http_data")

\* if (mState == DECODE_IMAGE), lines 2174-2222 (TextureDecodeDisabled off).
doWork_DECODE_IMAGE(C) ==
  IF ~Running(C, "DECODE_IMAGE") THEN C
  ELSE
    LET w == C.w
    IN  IF w.mDesiredDiscard < 0 \/ getDataSize(w.mFormattedImage) <= 0
           \/ w.mLoadedDiscard < 0
        THEN Return(C, [w EXCEPT !.mState = "DONE"], "true", "decode_nothing")
        ELSE FallThrough([C EXCEPT !.f.decode = TRUE],
               [w EXCEPT !.mRawImage = FALSE, !.mDecoded = FALSE,
                         !.mState = "DECODE_IMAGE_UPDATE",
                         !.mDecodeHandle = TRUE])

\* A faulty variant that retries after every failed decode of cached data.
doWork_DECODE_IMAGE_UPDATE_retrying(C) ==
  IF ~Running(C, "DECODE_IMAGE_UPDATE") THEN C
  ELSE
    LET w == C.w
    IN  IF ~w.mDecoded THEN Return(C, w, "false", "wait")
        ELSE IF w.mDecodedDiscard >= 0
        THEN FallThrough(C, [w EXCEPT !.mState = "WRITE_TO_CACHE"])
        ELSE IF w.mCachedSize > 0 /\ ~w.mInLocalCache
        THEN Return(C, [w EXCEPT !.mFormattedImage = NullImage,
                                 !.mRetryAttempt = 1, !.mState = "INIT"],
                    "false", "wait")
        ELSE FallThrough([C EXCEPT !.end = "decode_failed"],
                         [w EXCEPT !.mState = "DONE"])

\* if (mState == DECODE_IMAGE_UPDATE), lines 2224-2262.
doWork_DECODE_IMAGE_UPDATE(C) ==
  IF ~Running(C, "DECODE_IMAGE_UPDATE") THEN C
  ELSE
    LET w == C.w
    IN  IF ~w.mDecoded THEN Return(C, w, "false", "wait")
        ELSE IF w.mDecodedDiscard >= 0
        THEN FallThrough(C, [w EXCEPT !.mState = "WRITE_TO_CACHE"])
        ELSE IF w.mCachedSize > 0 /\ ~w.mInLocalCache /\ w.mRetryAttempt = 0
        THEN Return(C, [w EXCEPT !.mFormattedImage = NullImage,
                                 !.mRetryAttempt = @ + 1, !.mState = "INIT"],
                    "false", "wait")
        ELSE FallThrough([C EXCEPT !.end = "decode_failed"],
                         [w EXCEPT !.mState = "DONE"])

\* A faulty variant that flags every entry it writes as not fully loaded.
doWork_WRITE_TO_CACHE_flagging(C, in) ==
  IF ~Running(C, "WRITE_TO_CACHE") THEN C
  ELSE
    LET w == C.w
        datasize == getDataSize(w.mFormattedImage)
        filesize == datasize + 1
    IN  IF w.mWriteToCacheState # "SHOULD_WRITE" \/ ~w.mFormattedImage.notNull
        THEN Return(C, [w EXCEPT !.mState = "DONE"], "false", "wait")
        ELSE IF datasize = 0
        THEN Return([C EXCEPT !.f.crashed = TRUE], w, "true", "llerrs")
        ELSE FallThrough([C EXCEPT !.f.cacheWrite = in.write_handle \/ @,
                                   !.wrote = <<datasize, filesize>>],
               [w EXCEPT !.mFileSize = filesize,
                         !.mWritten = FALSE, !.mState = "WAIT_ON_WRITE",
                         !.mCacheWriteHandle = in.write_handle])

\* if (mState == WRITE_TO_CACHE), lines 2264-2295.
doWork_WRITE_TO_CACHE(C, in) ==
  IF ~Running(C, "WRITE_TO_CACHE") THEN C
  ELSE
    LET w == C.w
        datasize == getDataSize(w.mFormattedImage)
        filesize == IF w.mFileSize >= datasize THEN w.mFileSize
                    ELSE IF w.mHaveAllData THEN datasize
                    ELSE datasize + 1
    IN  IF w.mWriteToCacheState # "SHOULD_WRITE" \/ ~w.mFormattedImage.notNull
        THEN Return(C, [w EXCEPT !.mState = "DONE"], "false", "wait")
        ELSE IF datasize = 0
        THEN Return([C EXCEPT !.f.crashed = TRUE], w, "true", "llerrs")
        ELSE FallThrough([C EXCEPT !.f.cacheWrite = in.write_handle \/ @,
                                   !.wrote = <<datasize, filesize>>],
               [w EXCEPT !.mFileSize = filesize,
                         !.mWritten = FALSE, !.mState = "WAIT_ON_WRITE",
                         !.mCacheWriteHandle = in.write_handle])

\* writeToCacheComplete(), lines 2626-2645: <<result, worker>>.
writeToCacheComplete(w, in) ==
  IF ~w.mCacheWriteHandle THEN <<TRUE, w>>
  ELSE IF ~w.mWritten THEN <<FALSE, w>>
  ELSE IF in.write_complete
  THEN <<TRUE, [w EXCEPT !.mCacheWriteHandle = FALSE]>>
  ELSE <<FALSE, w>>

\* if (mState == WAIT_ON_WRITE), lines 2297-2315.
doWork_WAIT_ON_WRITE(C, in) ==
  IF ~Running(C, "WAIT_ON_WRITE") THEN C
  ELSE
    LET r == writeToCacheComplete(C.w, in)
    IN  IF r[1] THEN FallThrough(C, [r[2] EXCEPT !.mState = "DONE"])
        ELSE Return(C, r[2], "false", "wait")

\* if (mState == DONE), lines 2317-2331, and the final return.
doWork_DONE(C) ==
  IF C.ret # "run" THEN C
  ELSE IF C.w.mState # "DONE" THEN Return(C, C.w, "false", "wait")
  ELSE IF C.w.mDecodedDiscard >= 0 /\ C.w.mDesiredDiscard < C.w.mDecodedDiscard
  THEN Return(C, [C.w EXCEPT !.mState = "INIT"], "false", "more_data")
  ELSE Return(C, C.w, "true", IF C.end = "none" THEN "done" ELSE C.end)

\* doWork(param) as far as the test "if (mState == SEND_HTTP_REQ)".
doWork_to_SEND_HTTP_REQ(w, f, in) ==
  LET C0 == doWork_abort([w |-> w, f |-> f, ret |-> "run", end |-> "none",
                          wrote |-> << >>, blacklist_add |-> FALSE])
      C1 == doWork_INIT(C0)
      C2 == doWork_LOAD_FROM_TEXTURE_CACHE(C1, in)
      C3 == doWork_CACHE_POST(C2)
      C4 == doWork_LOAD_FROM_NETWORK(C3, in)
  IN  doWork_LOAD_FROM_SIMULATOR(C4)

\* doWork(param): the record C at the return.
doWork(w, f, in) ==
  LET C4 == doWork_to_SEND_HTTP_REQ(w, f, in)
      C5 == doWork_SEND_HTTP_REQ(C4, in)
      C6 == doWork_WAIT_HTTP_REQ(C5, in)
      C7 == doWork_DECODE_IMAGE(C6)
      C8 == doWork_DECODE_IMAGE_UPDATE(C7)
      C9 == doWork_WRITE_TO_CACHE(C8, in)
      C10 == doWork_WAIT_ON_WRITE(C9, in)
  IN  doWork_DONE(C10)

(***************************************************************************)
(* The completion callbacks of the worker.                                 *)
(***************************************************************************)
\* callbackHttpGet(channels, buffer, partial, success), data_size the length
\* of the body.
callbackHttpGet(w, success, data_size) ==
  IF w.mState # "WAIT_HTTP_REQ" \/ w.mLoaded THEN w
  ELSE IF ~success THEN [w EXCEPT !.mRequestedSize = -1, !.mLoaded = TRUE]
  ELSE IF data_size = 0
  THEN [w EXCEPT !.mHaveAllData = TRUE, !.mRequestedSize = 0, !.mLoaded = TRUE]
  ELSE IF data_size < w.mRequestedSize /\ w.mRequestedDiscard = 0
  THEN [w EXCEPT !.mHttpBuffer = data_size, !.mHaveAllData = TRUE,
                 !.mRequestedSize = data_size, !.mLoaded = TRUE]
  ELSE IF data_size > w.mRequestedSize
  THEN [w EXCEPT !.mHttpBuffer = data_size, !.mHaveAllData = TRUE,
                 !.mRequestedOffset = 0, !.mFormattedImage = NullImage,
                 !.mRequestedSize = data_size, !.mLoaded = TRUE]
  ELSE [w EXCEPT !.mHttpBuffer = data_size, !.mRequestedSize = data_size,
                 !.mLoaded = TRUE]

\* HTTPGetResponder::completedRaw(status, ...) for a worker that was found.
completedRaw(w, status, data_size) ==
  LET success == HTTP_OK <= status /\ status < HTTP_MULTIPLE_CHOICES
      w1 == IF success THEN w ELSE [w EXCEPT !.mGetStatus = status]
  IN  callbackHttpGet(w1, success, data_size)

\* A faulty variant of callbackCacheRead without the test of mState.
callbackCacheRead_any_state(w, success, data_size, imagesize, islocal) ==
  IF ~success THEN [w EXCEPT !.mLoaded = TRUE]
  ELSE [w EXCEPT !.mFileSize = imagesize,
                 !.mFormattedImage = Image(data_size),
                 !.mInLocalCache = islocal,
                 !.mHaveAllData = IF imagesize # 0 /\ data_size >= imagesize
                                  THEN TRUE ELSE @,
                 !.mLoaded = TRUE]

\* callbackCacheRead(success, image, imagesize, islocal), image holding
\* data_size units.
callbackCacheRead(w, success, data_size, imagesize, islocal) ==
  IF w.mState # "LOAD_FROM_TEXTURE_CACHE" THEN w
  ELSE IF ~success THEN [w EXCEPT !.mLoaded = TRUE]
  ELSE [w EXCEPT !.mFileSize = imagesize,
                 !.mFormattedImage = Image(data_size),
                 !.mInLocalCache = islocal,
                 !.mHaveAllData = IF imagesize # 0 /\ data_size >= imagesize
                                  THEN TRUE ELSE @,
                 !.mLoaded = TRUE]

\* callbackCacheWrite(success).
callbackCacheWrite(w) ==
  IF w.mState # "WAIT_ON_WRITE" THEN w ELSE [w EXCEPT !.mWritten = TRUE]

\* callbackDecoded(success, raw, aux), fmt_discard the discard level of the
\* formatted image.
callbackDecoded(w, success, fmt_discard) ==
  IF ~w.mDecodeHandle THEN w
  ELSE IF w.mState # "DECODE_IMAGE_UPDATE"
  THEN [w EXCEPT !.mDecodeHandle = FALSE]
  ELSE IF success
  THEN [w EXCEPT !.mDecodeHandle = FALSE, !.mRawImage = TRUE,
                 !.mDecodedDiscard = fmt_discard, !.mDecoded = TRUE]
  ELSE [w EXCEPT !.mDecodeHandle = FALSE, !.mDecodedDiscard = -1,
                 !.mDecoded = TRUE]

\* endWork(param, aborted).
endWork(w) == [w EXCEPT !.mDecodeHandle = FALSE, !.mFormattedImage = NullImage]

\* finishWork(param, completed).
finishWork(w) ==
  [w EXCEPT !.mCacheReadHandle = FALSE, !.mCacheWriteHandle = FALSE]

\* LLWorkerClass::checkWork(): <<complete, worker>>; completed work is
\* collected: endWork is called and the worker has no work any more.
checkWork(w) ==
  IF ~w.haveWork THEN <<TRUE, w>>
  ELSE IF w.complete THEN <<TRUE, [endWork(w) EXCEPT !.haveWork = FALSE]>>
  ELSE <<FALSE, w>>

(***************************************************************************)
(* LLTextureFetch: the request map and the queues, for the one texture id. *)
(***************************************************************************)
\* removeRequest(worker, cancel): the worker leaves the request map and is
\* scheduled for deletion.
removeRequest(f, cancel_) == removeFromNetworkQueue(f, cancel_)

\* The desired size and discard computed by createRequest (lines 2696-2724):
\* dims_size is calcDataSizeJ2C(w, h, c, desired_discard), 0 when w*h*c = 0.
DesiredOf(kind, non_j2c, dims_size, desired_discard) ==
  IF kind # "" /\ non_j2c THEN <<MaxSize, 0>>
  ELSE IF desired_discard = 0 THEN <<MaxSize, 0>>
  ELSE IF dims_size > 0 THEN <<dims_size, desired_discard>>
  ELSE <<TEXTURE_CACHE_ENTRY_SIZE, MaxDiscard>>

\* createRequest() for a worker that exists and was not aborted.
createRequest_update(w, priority, desired, can_use_http) ==
  LET w1 == setImagePriority(w, priority)
      w2 == setDesiredDiscard(w1, desired[2], desired[1])
      w3 == setCanUseHTTP(w2, can_use_http)
  IN  IF ~haveWork(w3) THEN addWork([w3 EXCEPT !.mState = "INIT"]) ELSE w3

\* createRequest() when the id has no worker: the constructor, then
\* setCanUseHTTP.
createRequest_new(kind, priority, desired, can_use_http) ==
  setCanUseHTTP(setDesiredDiscard(NewWorker(kind, priority),
                                  desired[2], desired[1]),
                can_use_http)

\* getRequestFinished(id, discard_level, raw, aux): [w, res, discard, raw].
getRequestFinished(w, discard_level) ==
  LET same == [w |-> w, res |-> FALSE, discard |-> discard_level, raw |-> FALSE]
      chk == checkWork(w)
  IN  IF ~w.exists THEN [same EXCEPT !.res = TRUE]
      ELSE IF wasAborted(w) THEN [same EXCEPT !.res = TRUE]
      ELSE IF ~haveWork(w) THEN [same EXCEPT !.w = addWork(w)]
      ELSE IF chk[1]
      THEN [w |-> chk[2], res |-> TRUE, discard |-> w.mDecodedDiscard,
            raw |-> w.mRawImage]
      ELSE IF w.mDecodedDiscard >= 0
              /\ (w.mDecodedDiscard < discard_level \/ discard_level < 0)
              /\ StateNo(w.mState) >= StateNo("WAIT_ON_WRITE")
      THEN [same EXCEPT !.discard = w.mDecodedDiscard, !.raw = w.mRawImage]
      ELSE same

(***************************************************************************)
(* The steps of the texture fetch: the calls of the main thread, the       *)
(* fetch pool running doWork, and the responders of the cache, the http    *)
(* client and the decoder.  observed.pass is "failed" from the return of   *)
(* doWork out of one of the failure branches until getRequestFinished      *)
(* collects the work, and "polled" from then on; createRequest and         *)
(* deleteRequest reset it.  observed.creates counts the calls of           *)
(* createRequest that were accepted.  observed.hit holds from a call of    *)
(* doWork that found enough data in CACHE_POST until the worker is back in *)
(* INIT, is removed, or getRequestFinished reports it as finished.         *)
(***************************************************************************)
FailureEndings ==
  {"blacklisted", "file_miss", "http_not_found", "http_retries",
   "http_timeout", "http_empty", "decode_failed"}

Priorities == {0, F_ALMOST_ZERO}

\* The sizes and discards createRequest can compute.
Requested ==
  {DesiredOf(kind, non_j2c, dims_size, desired_discard) :
     kind \in UrlKinds, non_j2c \in BOOLEAN, dims_size \in Sizes,
     desired_discard \in Discards}

\* Restricts an input that a call cannot read to one value.
If(relevant, S, default) == IF relevant THEN S ELSE {default}

\* createRequest(url, id, host, priority, w, h, c, desired_discard, needs_aux,
\* can_use_http) with a host that differs from the worker's.
CreateRequestOtherHost ==
  /\ ~fetcher.crashed
  /\ worker.exists
  /\ worker' = NoWorker
  /\ fetcher' = removeRequest(fetcher, TRUE)
  /\ observed' = [observed EXCEPT !.pass = "none", !.hit = FALSE]
  /\ UNCHANGED <<svars, uvars, xvars>>

\* createRequest() otherwise; desired is the size and discard it computes
\* from its arguments.  A worker is never aborted (nothing calls abortWork).
CreateRequest(kind, priority, desired, can_use_http) ==
  /\ ~fetcher.crashed
  /\ worker.exists => ~wasAborted(worker)
  /\ observed.creates < MaxCreates
  /\ worker' = IF worker.exists
               THEN createRequest_update(worker, priority, desired, can_use_http)
               ELSE createRequest_new(kind, priority, desired, can_use_http)
  /\ observed' = [pass |-> "none", creates |-> observed.creates + 1,
                   hit |-> observed.hit /\ worker'.mState # "INIT"]
  /\ UNCHANGED <<fetcher, svars, uvars, xvars>>

DeleteRequest(cancel_) ==
  /\ ~fetcher.crashed
  /\ worker.exists
  /\ worker' = NoWorker
  /\ fetcher' = removeRequest(fetcher, cancel_)
  /\ observed' = [observed EXCEPT !.pass = "none", !.hit = FALSE]
  /\ UNCHANGED <<svars, uvars, xvars>>

UpdateRequestPriority(priority) ==
  /\ ~fetcher.crashed
  /\ worker.exists
  /\ worker' = setImagePriority(worker, priority)
  /\ UNCHANGED <<fetcher, observed, svars, uvars, xvars>>

GetRequestFinished(discard_level) ==
  LET r == getRequestFinished(worker, discard_level)
  IN  /\ ~fetcher.crashed
      /\ worker' = r.w
      /\ observed' = [observed EXCEPT
                        !.pass = IF @ = "failed" /\ r.res THEN "polled" ELSE @,
                        !.hit = @ /\ ~r.res]
      /\ UNCHANGED <<fetcher, svars, uvars, xvars>>

\* The inputs of a call of doWork; an input that a call entered in the
\* worker's state cannot read is fixed.
DoWorkInputsFor(w) ==
  LET st == w.mState
      net == st \in {"LOAD_FROM_TEXTURE_CACHE", "CACHE_POST", "LOAD_FROM_NETWORK"}
             /\ (st = "LOAD_FROM_TEXTURE_CACHE" => w.mLoaded)
      send == net \/ st = "SEND_HTTP_REQ"
      decoded == st = "DECODE_IMAGE_UPDATE" \/ st = "WRITE_TO_CACHE"
  IN  [region : If(net, {"none", "nourl", "url"}, "none"),
       use_http : If(net, BOOLEAN, FALSE),
       host_blacklisted : If(net, BOOLEAN, FALSE),
       other_http : If(send, {0, max_http_requests}, 0),
       texture_bandwidth : {0},
       timeout : If(st = "WAIT_HTTP_REQ" /\ ~w.mLoaded, BOOLEAN, FALSE),
       read_complete : If(st = "LOAD_FROM_TEXTURE_CACHE" /\ w.mLoaded,
                          BOOLEAN, FALSE),
       write_handle : If(decoded, BOOLEAN, FALSE),
       write_complete : If(st = "WAIT_ON_WRITE", BOOLEAN, FALSE),
       fmt_discard : If(send \/ st = "WAIT_HTTP_REQ", Discards, 0)]

\* A call of doWork that took the branch of CACHE_POST for enough data: no
\* other path leads from these states to DECODE_IMAGE_UPDATE in one call.
CachePostHit(w, w2) ==
  /\ w.mState \in {"LOAD_FROM_TEXTURE_CACHE", "CACHE_POST"}
  /\ w2.mState = "DECODE_IMAGE_UPDATE"

\* The fetch pool runs doWork of a worker that has work; when doWork returns
\* true the work is complete and finishWork is called.
DoWork ==
  /\ ~fetcher.crashed
  /\ worker.exists /\ haveWork(worker) /\ ~worker.complete
  /\ \E C \in {doWork(worker, fetcher, in) : in \in DoWorkInputsFor(worker)} :
       /\ worker' = IF C.ret = "true"
                    THEN [finishWork(C.w) EXCEPT !.complete = TRUE]
                    ELSE C.w
       /\ fetcher' = C.f
       /\ observed' = [observed EXCEPT
                         !.pass = IF C.ret = "true" /\ C.end \in FailureEndings
                                  THEN "failed" ELSE @,
                         !.hit = IF CachePostHit(worker, C.w) THEN TRUE
                                 ELSE @ /\ C.w.mState # "INIT"]
  /\ UNCHANGED <<svars, uvars, xvars>>

\* A responder finds the worker by its id; without a worker the completion
\* is dropped.  The fetcher records per kind that a responder is outstanding.
\* The cache reports the size of the whole entry, which is not smaller than
\* the part that was read.
CacheReadCompleted ==
  /\ ~fetcher.crashed
  /\ fetcher.cacheRead
  /\ \E w \in IF worker.exists
              THEN UNION {{callbackCacheRead(worker, success, data_size,
                                             imagesize, FALSE) :
                             success \in BOOLEAN,
                             imagesize \in data_size..MaxSize} :
                            data_size \in Sizes}
              ELSE {worker} :
       worker' = w
  /\ fetcher' = [fetcher EXCEPT !.cacheRead = FALSE]
  /\ UNCHANGED <<observed, svars, uvars, xvars>>

\* The statuses of a completed http request; a request fails at most
\* MaxHTTPFail times.
HttpStatuses ==
  {HTTP_OK, HTTP_NOT_FOUND, 499}
    \cup IF worker.exists /\ worker.mHTTPFailCount >= MaxHTTPFail
         THEN {} ELSE {500, HTTP_SERVICE_UNAVAILABLE}

HttpCompleted ==
  /\ ~fetcher.crashed
  /\ fetcher.httpGet
  /\ \E w \in IF worker.exists
              THEN {completedRaw(worker, status, data_size) :
                      status \in HttpStatuses, data_size \in 0..(MaxSize + 1)}
              ELSE {worker} :
       worker' = w
  /\ fetcher' = [fetcher EXCEPT !.httpGet = FALSE, !.mHTTPTextureQueue = FALSE]
  /\ UNCHANGED <<observed, svars, uvars, xvars>>

DecodeCompleted ==
  /\ ~fetcher.crashed
  /\ fetcher.decode
  /\ \E w \in IF worker.exists
              THEN {callbackDecoded(worker, success, fmt_discard) :
                      success \in BOOLEAN, fmt_discard \in Discards}
              ELSE {worker} :
       worker' = w
  /\ fetcher' = [fetcher EXCEPT !.decode = FALSE]
  /\ UNCHANGED <<observed, svars, uvars, xvars>>

CacheWriteCompleted ==
  /\ ~fetcher.crashed
  /\ fetcher.cacheWrite
  /\ worker' = IF worker.exists THEN callbackCacheWrite(worker) ELSE worker
  /\ fetcher' = [fetcher EXCEPT !.cacheWrite = FALSE]
  /\ UNCHANGED <<observed, svars, uvars, xvars>>

(***************************************************************************)
(* SpecFetch: one texture id; the asset blacklist is fixed in a behaviour. *)
(***************************************************************************)
FetchInit ==
  /\ NoServices /\ NoUrl /\ NoExtras
  /\ worker = NoWorker
  /\ fetcher \in {[IdleFetcher EXCEPT !.mBlackListedAsset = b] : b \in BOOLEAN}
  /\ observed = NoCalls

FetchNext ==
  \/ CreateRequestOtherHost
  \/ \E kind \in If(~worker.exists, UrlKinds, ""), priority \in Priorities,
        desired \in Requested, can_use_http \in BOOLEAN :
       CreateRequest(kind, priority, desired, can_use_http)
  \/ \E cancel_ \in BOOLEAN : DeleteRequest(cancel_)
  \/ \E priority \in Priorities : UpdateRequestPriority(priority)
  \/ \E discard_level \in -1..MaxDiscard : GetRequestFinished(discard_level)
  \/ DoWork
  \/ CacheReadCompleted
  \/ HttpCompleted
  \/ DecodeCompleted
  \/ CacheWriteCompleted

SpecFetch == FetchInit /\ [][FetchNext]_vars

(***************************************************************************)
(* SGHostBlackList.  blackList.blacklist is the vector of entries          *)
(* [host, timeUntil, errorCount], blackList.now the value of               *)
(* LLTimer::getTotalTime(), counted in units of the timeout that add is    *)
(* called with, and blackList.asked the argument and the result of the     *)
(* last call of isBlacklisted.  A url is a sequence of characters.         *)
(***************************************************************************)
\* url.rfind("/"): the position of the last '/', -1 for npos.
rfind_slash(url_) ==
  LET at == {i \in 1..Len(url_) : url_[i] = "/"}
  IN  IF at = {} THEN -1 ELSE (CHOOSE i \in at : \A j \in at : j <= i) - 1

\* url.substr(0, n), n = -1 for npos.
substr0(url_, n) == IF n = -1 THEN url_ ELSE SubSeq(url_, 1, n)

\* text.find(what) == 0.
find_at_0(text, what) ==
  Len(what) <= Len(text) /\ SubSeq(text, 1, Len(what)) = what

is_obsolete(entry, now) == now > entry.timeUntil

\* The loop of std::remove_if from the first obsolete entry on: an entry that
\* stays is assigned to the position first, and the entry it is taken from
\* keeps its value (assignment by copy) or loses its host (by move).
RECURSIVE remove_from(_, _, _, _, _)
remove_from(bl, first, i, now, moved) ==
  IF i > Len(bl) THEN bl
  ELSE IF is_obsolete(bl[i], now) THEN remove_from(bl, first, i + 1, now, moved)
  ELSE remove_from([bl EXCEPT ![first] = bl[i],
                              ![i] = IF moved THEN [@ EXCEPT !.host = << >>]
                                     ELSE @],
                   first + 1, i + 1, now, moved)

\* std::remove_if(blacklist.begin(), blacklist.end(), is_obsolete): the
\* vector afterwards; the returned iterator is dropped and nothing is erased.
remove_if(bl, now, moved) ==
  LET obsolete == {i \in 1..Len(bl) : is_obsolete(bl[i], now)}
      first == CHOOSE i \in obsolete : \A j \in obsolete : i <= j
  IN  IF obsolete = {} THEN bl ELSE remove_from(bl, first, first + 1, now, moved)

\* cleanup(): the vectors it can leave behind.
cleanup(bl, now) == {remove_if(bl, now, moved) : moved \in BOOLEAN}

\* The loop of find(host) on the vector that cleanup left: the position of
\* the entry found, 0 for blacklist.end().
find(bl, host) ==
  LET hits == {i \in 1..Len(bl) : find_at_0(bl[i].host, host)}
  IN  IF hits = {} THEN 0 ELSE CHOOSE i \in hits : \A j \in hits : i <= j

\* isBlacklisted(url) on the vector that cleanup left.
isBlacklisted(bl, url_) ==
  LET found == find(bl, url_)
  IN  found # 0 /\ bl[found].errorCount > MAX_ERRORCOUNT

\* add(url, timeout, reason) after "if (entry.host.empty()) return", on the
\* vector that cleanup left.
add_entry(bl, now, host, timeout) ==
  LET found == find(bl, host)
      entry == [host |-> host, timeUntil |-> now + timeout,
                errorCount |-> IF found # 0 THEN bl[found].errorCount + 1
                               ELSE 0]
  IN  IF found # 0 THEN [bl EXCEPT ![found] = entry] ELSE Append(bl, entry)

\* add(url, timeout, reason): the vectors it can leave behind.
add(bl, now, url_, timeout) ==
  LET host == substr0(url_, rfind_slash(url_))
  IN  IF host = << >> THEN {bl}
      ELSE {add_entry(c, now, host, timeout) : c \in cleanup(bl, now)}

\* The urls of the model: the url of a texture of the region h or g, as
\* doWork builds it from the capability ("h" + "/?texture_id=" + id), and
\* a url without a path.
TextureUrl(region) == <<region, "/", "t">>
BlackListUrls == {TextureUrl("h"), TextureUrl("g"), <<"h">>}

\* The timeout that doWork passes to add.
BlackListTimeout == 1

BlackListAdd(url_) ==
  /\ \A i \in 1..Len(blackList.blacklist) :
       blackList.blacklist[i].errorCount < MaxErrors
  /\ \E bl \in add(blackList.blacklist, blackList.now, url_, BlackListTimeout) :
       blackList' = [blackList EXCEPT !.blacklist = bl, !.asked = NoQuery]
  /\ UNCHANGED <<svars, uvars, wvars, bytes, deleted>>

BlackListQuery(url_) ==
  /\ \E bl \in cleanup(blackList.blacklist, blackList.now) :
       blackList' = [blackList EXCEPT
                       !.blacklist = bl,
                       !.asked = [url |-> url_,
                                  found |-> isBlacklisted(bl, url_)]]
  /\ UNCHANGED <<svars, uvars, wvars, bytes, deleted>>

BlackListTick ==
  /\ blackList.now < MaxNow
  /\ blackList' = [blackList EXCEPT !.now = @ + 1, !.asked = NoQuery]
  /\ UNCHANGED <<svars, uvars, wvars, bytes, deleted>>

BlackListInit ==
  /\ NoServices /\ NoUrl /\ NoFetch /\ NoExtras

BlackListNext ==
  \/ \E url_ \in BlackListUrls : BlackListAdd(url_)
  \/ \E url_ \in BlackListUrls : BlackListQuery(url_)
  \/ BlackListTick

SpecBlackList == BlackListInit /\ [][BlackListNext]_vars

(***************************************************************************)
(* The bytes of the buffers.  A byte of the asset is written as its offset *)
(* in the asset and -1 is a byte that was never written.  bytes.asset is   *)
(* the size of the asset, bytes.cached the length of the prefix of it that *)
(* the texture cache holds, bytes.formatted the data of mFormattedImage,   *)
(* bytes.httpBuffer the content of mHttpBuffer, bytes.writes the calls of  *)
(* writeToCache, bytes.got the number of bytes that the cache and the http *)
(* response contributed to the formatted data, and bytes.send the values   *)
(* read and the step taken by the last call of doWork if it ran the block  *)
(* SEND_HTTP_REQ with mCanUseHTTP set.                                     *)
(***************************************************************************)
Min(a, b) == IF a < b THEN a ELSE b
AssetBytes(n) == [i \in 1..n |-> i - 1]
At(s, i) == IF i \in 1..Len(s) THEN s[i] ELSE -1

\* MAX_IMAGE_DATA_SIZE, the desired size at discard 0: more than any asset.
DataMax == MaxAsset + 1

\* The body of the response of a server that holds the asset, to a request
\* with the header "Range: bytes=offset-(offset + size - 1)".
ServerBody(asset, offset, size) ==
  SubSeq(AssetBytes(asset), offset + 1, Min(asset, offset + size))

\* A faulty variant that copies the whole body behind the data at hand.
formatted_after_http_appending(w, formatted, httpBuffer) ==
  formatted \o httpBuffer

\* A faulty variant that copies the body from its first byte on, overlap
\* included.
formatted_after_http_unaligned(w, formatted, httpBuffer) ==
  LET cur_size == getDataSize(w.mFormattedImage)
      realign == w.mRequestedOffset # 0 /\ w.mRequestedOffset # cur_size
      src_offset == IF realign THEN cur_size - w.mRequestedOffset ELSE 0
      requested == w.mRequestedSize - src_offset
      offset == w.mRequestedOffset + src_offset
      total_size == cur_size + requested
  IN  [i \in 1..total_size |->
         IF i - 1 >= offset /\ i - 1 < offset + requested
         THEN At(httpBuffer, (i - 1 - offset) + 1)
         ELSE IF i <= cur_size THEN At(formatted, i)
         ELSE -1]

\* The buffer that the block WAIT_HTTP_REQ hands to setData (lines
\* 2096-2149): the data at hand, then mRequestedSize bytes of mHttpBuffer
\* from src_offset on, copied to the offset mRequestedOffset.
formatted_after_http(w, formatted, httpBuffer) ==
  LET cur_size == getDataSize(w.mFormattedImage)
      realign == w.mRequestedOffset # 0 /\ w.mRequestedOffset # cur_size
      src_offset == IF realign THEN cur_size - w.mRequestedOffset ELSE 0
      requested == w.mRequestedSize - src_offset
      offset == w.mRequestedOffset + src_offset
      total_size == cur_size + requested
  IN  [i \in 1..total_size |->
         IF i - 1 >= offset /\ i - 1 < offset + requested
         THEN At(httpBuffer, src_offset + (i - 1 - offset) + 1)
         ELSE IF i <= cur_size THEN At(formatted, i)
         ELSE -1]

\* The data of packet index when it has size bytes: the bytes of the asset
\* from the offset of the packet on.
PacketBytes(index, size) ==
  LET offset == IF index = 0 THEN 0
                ELSE FIRST_PACKET_SIZE + (index - 1) * MAX_IMG_PACKET_SIZE
  IN  [j \in 1..size |-> offset + j - 1]

\* The data of the packets i..last of the worker, one after the other.
RECURSIVE PacketRun(_, _, _)
PacketRun(w, i, last) ==
  IF i > last THEN << >>
  ELSE PacketBytes(i, PacketSize(w, i)) \o PacketRun(w, i + 1, last)

\* A faulty variant that copies the packets last first.
formatted_after_sim_last_first(w, formatted) ==
  LET cur_size == getDataSize(w.mFormattedImage)
      run == w.mFirstPacket..w.mLastPacket
      sizes == [i \in run |-> PacketSize(w, i)]
      behind(i) == SumOver(sizes, {k \in run : k > i})
      kept == IF cur_size > 0 /\ w.mFirstPacket > 0 THEN cur_size ELSE 0
      buffer_size == cur_size + SumOver(sizes, run)
      packet(q) == {i \in run : behind(i) < q /\ q <= behind(i) + sizes[i]}
  IN  IF buffer_size > cur_size
      THEN [p \in 1..buffer_size |->
              IF p <= kept THEN At(formatted, p)
              ELSE IF packet(p - kept) = {} THEN -1
              ELSE LET i == CHOOSE i \in packet(p - kept) : TRUE
                   IN  PacketBytes(i, sizes[i])[p - kept - behind(i)]]
      ELSE formatted

\* A faulty variant that does not copy the data at hand.
formatted_after_sim_packets_only(w, formatted) ==
  LET cur_size == getDataSize(w.mFormattedImage)
      run == PacketRun(w, w.mFirstPacket, w.mLastPacket)
      buffer_size == cur_size + Len(run)
  IN  IF buffer_size > cur_size
      THEN [i \in 1..buffer_size |-> At(run, i)]
      ELSE formatted

\* The buffer that processSimulatorPackets hands to setData (lines
\* 2447-2463); w.mFormattedImage is not null.
formatted_after_sim(w, formatted) ==
  LET cur_size == getDataSize(w.mFormattedImage)
      run == PacketRun(w, w.mFirstPacket, w.mLastPacket)
      buffer_size == cur_size + Len(run)
      copied == (IF cur_size > 0 /\ w.mFirstPacket > 0 THEN formatted
                 ELSE << >>) \o run
  IN  IF buffer_size > cur_size
      THEN [i \in 1..buffer_size |-> At(copied, i)]
      ELSE formatted

\* The buffers after a step that left the worker as w2: an image without
\* data has no bytes, and neither has an empty mHttpBuffer.
KeepBytes(b, w2) ==
  LET none == ~w2.exists \/ getDataSize(w2.mFormattedImage) = 0
  IN  [b EXCEPT !.formatted = IF none THEN << >> ELSE @,
                !.httpBuffer = IF ~w2.exists \/ w2.mHttpBuffer = 0
                               THEN << >> ELSE @,
                !.got = IF none THEN [cache |-> 0, http |-> 0] ELSE @]

\* The buffers after a call of doWork on worker w that returned as C.
bytes_after_doWork(b, w, C) ==
  LET b1 == IF C.end = "http_data"
            THEN [b EXCEPT !.formatted =
                              formatted_after_http(w, b.formatted, b.httpBuffer),
                           !.got.http = Len(b.httpBuffer)]
            ELSE IF C.end = "sim_data"
            THEN [b EXCEPT !.formatted =
                              formatted_after_sim(
                                [w EXCEPT !.mFormattedImage =
                                             IF @.notNull THEN @ ELSE Image(0)],
                                b.formatted)]
            ELSE b
      b2 == KeepBytes(b1, C.w)
  IN  IF C.wrote = << >> THEN b2
      ELSE [b2 EXCEPT !.writes = Append(@, [data |-> b2.formatted,
                                            size |-> C.wrote[1],
                                            file_size |-> C.wrote[2]])]

\* A faulty variant of the header whose last byte is one too far.
RangeHeader_to_end(offset, size) ==
  IF offset > 0 \/ size > 0 THEN <<offset, offset + size>> ELSE << >>

\* The header "Range: bytes=%d-%d" of the request (lines 1975-1978): the
\* first and the last byte, or no header.
RangeHeader(offset, size) ==
  IF offset > 0 \/ size > 0 THEN <<offset, offset + size - 1>> ELSE << >>

\* What a call of doWork did in the block SEND_HTTP_REQ, C4 being the call
\* at the entry of the block and C at the return; range is the Range header
\* of the request it issued.
SendStep(C4, C, in) ==
  IF ~(Running(C4, "SEND_HTTP_REQ") /\ C4.w.mCanUseHTTP) THEN NoSend
  ELSE [num |-> getNumHTTPRequests(C4.f, in.other_http),
        bw |-> in.texture_bandwidth,
        did |-> IF C.w.mState = "WAIT_HTTP_REQ" THEN "issued"
                ELSE IF C.w = C4.w /\ C.f = C4.f /\ C.ret = "false"
                THEN "stalled"
                ELSE "other",
        range |-> IF C.w.mState = "WAIT_HTTP_REQ"
                  THEN RangeHeader(C.w.mRequestedOffset, C.w.mRequestedSize)
                  ELSE << >>]

(***************************************************************************)
(* SpecData: one request for a texture of the region, whose http server    *)
(* holds the asset and whose cache entry holds a prefix of it.  The region *)
(* has the capability, ImagePipelineUseHTTP is set, the clock of the       *)
(* blacklist stands still, the cache completes what it was asked, the      *)
(* decoder reports the discard level that was loaded, and no simulator     *)
(* packet arrives.                                                         *)
(***************************************************************************)
\* The numbers of other http requests and the bandwidths that a call reads.
HttpCounts ==
  {0, min_http_requests, min_http_requests + 1, max_http_requests - 1,
   max_http_requests}
Bandwidths ==
  {throttle_bandwidth - 1, throttle_bandwidth, throttle_bandwidth + 1}

DataRequested == {<<DataMax, 0>>} \cup {<<size, 1>> : size \in 1..MaxAsset}

DataInputsFor(w, counts, bandwidths) ==
  LET st == w.mState
      net == st \in {"LOAD_FROM_TEXTURE_CACHE", "CACHE_POST", "LOAD_FROM_NETWORK"}
             /\ (st = "LOAD_FROM_TEXTURE_CACHE" => w.mLoaded)
      send == net \/ st = "SEND_HTTP_REQ"
  IN  [region : {"url"}, use_http : {TRUE},
       host_blacklisted :
         {isBlacklisted(blackList.blacklist, TextureUrl("h"))},
       other_http : If(send, counts, 0),
       texture_bandwidth : If(send, bandwidths, 0),
       timeout : {FALSE}, read_complete : {TRUE}, write_handle : {TRUE},
       write_complete : {TRUE},
       fmt_discard : If(send \/ st = "WAIT_HTTP_REQ", Discards, 0)]

DataCreate(desired) ==
  /\ ~worker.exists
  /\ worker' = createRequest_new("", F_ALMOST_ZERO, desired, TRUE)
  /\ UNCHANGED <<fetcher, observed, svars, uvars, xvars>>

DataDoWork(counts, bandwidths) ==
  /\ ~fetcher.crashed
  /\ worker.exists /\ haveWork(worker) /\ ~worker.complete
  /\ \E in \in DataInputsFor(worker, counts, bandwidths) :
       LET C == doWork(worker, fetcher, in)
           C4 == doWork_to_SEND_HTTP_REQ(worker, fetcher, in)
           b == bytes_after_doWork(bytes, worker, C)
       IN  /\ worker' = IF C.ret = "true"
                        THEN [finishWork(C.w) EXCEPT !.complete = TRUE]
                        ELSE C.w
           /\ fetcher' = C.f
           /\ bytes' = [b EXCEPT !.send = SendStep(C4, C, in)]
           /\ \E bl \in IF C.blacklist_add
                        THEN add(blackList.blacklist, blackList.now,
                                 TextureUrl("h"), BlackListTimeout)
                        ELSE {blackList.blacklist} :
                blackList' = [blackList EXCEPT !.blacklist = bl]
  /\ UNCHANGED <<observed, deleted, svars, uvars>>

\* CacheReadResponder::completed: the cache holds bytes.cached bytes of the
\* asset and was asked for mDesiredSize bytes from offset 0; the size of the
\* entry is the size of the asset, or one more than the data if the entry
\* was written as not fully loaded.
DataCacheRead ==
  /\ fetcher.cacheRead
  /\ getDataSize(worker.mFormattedImage) = 0
  /\ LET data_size == Min(bytes.cached, worker.mDesiredSize)
     IN  \E imagesize \in IF bytes.cached = bytes.asset THEN {bytes.asset}
                           ELSE {bytes.cached + 1, bytes.asset} :
           /\ worker' = callbackCacheRead(worker, bytes.cached > 0, data_size,
                                          imagesize, FALSE)
           /\ bytes' = IF worker'.mFormattedImage # worker.mFormattedImage
                       THEN [bytes EXCEPT
                               !.formatted = SubSeq(AssetBytes(bytes.asset),
                                                    1, data_size),
                               !.got = [cache |-> data_size, http |-> 0],
                               !.send = NoSend, !.udp = NoUdp]
                       ELSE [bytes EXCEPT !.send = NoSend, !.udp = NoUdp]
  /\ fetcher' = [fetcher EXCEPT !.cacheRead = FALSE]
  /\ UNCHANGED <<observed, blackList, deleted, svars, uvars>>

\* HTTPGetResponder::completedRaw: the server answers the range that was
\* requested, or fails.
DataHttpCompleted(status) ==
  /\ fetcher.httpGet
  /\ LET success == HTTP_OK <= status /\ status < HTTP_MULTIPLE_CHOICES
         body == IF success
                 THEN ServerBody(bytes.asset, worker.mRequestedOffset,
                                 worker.mRequestedSize)
                 ELSE << >>
     IN  /\ worker' = completedRaw(worker, status, Len(body))
         /\ bytes' = KeepBytes([bytes EXCEPT !.httpBuffer = body,
                                             !.send = NoSend, !.udp = NoUdp], worker')
  /\ fetcher' = [fetcher EXCEPT !.httpGet = FALSE, !.mHTTPTextureQueue = FALSE]
  /\ UNCHANGED <<observed, blackList, deleted, svars, uvars>>

DataDecodeCompleted(success) ==
  /\ fetcher.decode
  /\ worker' = callbackDecoded(worker, success, worker.mLoadedDiscard)
  /\ fetcher' = [fetcher EXCEPT !.decode = FALSE]
  /\ bytes' = [bytes EXCEPT !.send = NoSend, !.udp = NoUdp]
  /\ UNCHANGED <<observed, blackList, deleted, svars, uvars>>

DataCacheWriteCompleted ==
  /\ fetcher.cacheWrite
  /\ worker' = callbackCacheWrite(worker)
  /\ fetcher' = [fetcher EXCEPT !.cacheWrite = FALSE]
  /\ bytes' = [bytes EXCEPT !.send = NoSend, !.udp = NoUdp]
  /\ UNCHANGED <<observed, blackList, deleted, svars, uvars>>

DataInit ==
  /\ NoServices /\ NoUrl /\ NoFetch
  /\ blackList = NoBlackList
  /\ deleted = NoWorker
  /\ bytes \in {[NoBytes EXCEPT !.asset = asset, !.cached = cached] :
                  asset \in 1..MaxAsset, cached \in 0..MaxAsset}
  /\ bytes.cached <= bytes.asset

DataNext ==
  \/ \E desired \in DataRequested : DataCreate(desired)
  \/ DataDoWork(HttpCounts, Bandwidths)
  \/ DataCacheRead
  \/ \E status \in {HTTP_OK, 206, HTTP_NOT_FOUND, 499} : DataHttpCompleted(status)
  \/ \E success \in BOOLEAN : DataDecodeCompleted(success)
  \/ DataCacheWriteCompleted

SpecData == DataInit /\ [][DataNext]_vars

\* The bytes follow the sizes that the worker holds.
DataSizesAgree ==
  /\ Len(bytes.formatted) =
       (IF worker.exists THEN getDataSize(worker.mFormattedImage) ELSE 0)
  /\ Len(bytes.httpBuffer) = (IF worker.exists THEN worker.mHttpBuffer ELSE 0)

(***************************************************************************)
(* The simulator protocol of LLTextureFetch.  A host of SimHosts sends     *)
(* image headers and image packets for the id of the worker, the idle loop *)
(* calls sendRequestListToSimulators.  bytes.udp is the last message that  *)
(* was received: its kind, its sender, the packet index and the size of    *)
(* the data, the stage that it reached ("checked" if the receiving         *)
(* function turned it down itself, "refused" or "stored" if it called      *)
(* insertPacket and that returned false or true, "llerrs" if an assertion  *)
(* failed) and the result of the function.  bytes.deliveries counts the calls of   *)
(* processSimulatorPackets that handed data to the formatted image since   *)
(* the block INIT ran (pass) and holds the length of the data of the       *)
(* latest of them (last) and of the one before it (before, 0 if there was *)
(* none); its field gap holds if, since the block INIT     *)
(* ran, a packet was stored behind a packet that was missing.              *)
(* bytes.notFound holds once a 404 reply was       *)
(* processed, bytes.recreated once createRequest was called after that     *)
(* with can_use_http set.                                                  *)
(***************************************************************************)
\* The largest number of packets of an asset.
MaxPackets ==
  div(MaxAsset - FIRST_PACKET_SIZE + MAX_IMG_PACKET_SIZE - 1,
      MAX_IMG_PACKET_SIZE) + 1

\* sendRequestListToSimulators() with gMessageSystem set: [w, f].  resend
\* is the outcome of the tests of the timers of the request.
sendRequestListToSimulators(w, f, resend) ==
  LET sent == [w |-> w, f |-> [f EXCEPT !.mCancelQueue = {}]]
  IN  IF ~f.mNetworkQueue THEN sent
      ELSE IF ~w.exists THEN [sent EXCEPT !.f.mNetworkQueue = FALSE]
      ELSE IF w.mState \notin {"LOAD_FROM_NETWORK", "LOAD_FROM_SIMULATOR"}
      THEN [sent EXCEPT !.f.mNetworkQueue = FALSE]
      ELSE IF w.mSentRequest = "SENT_SIM" /\ w.mTotalPackets > 0
              /\ w.mLastPacket >= w.mTotalPackets - 1
      THEN sent
      ELSE IF w.mSimRequestedDiscard # w.mDesiredDiscard \/ resend
      THEN LET w1 == IF w.mSentRequest # "SENT_SIM" THEN setupPacketData(w)
                     ELSE w
           IN  [sent EXCEPT !.w = [w1 EXCEPT
                                     !.mSentRequest = "SENT_SIM",
                                     !.mSimRequestedDiscard = w1.mDesiredDiscard]]
      ELSE sent

Stage(inserted) == IF inserted THEN "stored" ELSE "refused"

\* receiveImageHeader(host, id, codec, packets, totalbytes, data_size, data):
\* [w, f, stage, res].
receiveImageHeader(w, f, host, packets, totalbytes, data_size) ==
  LET refused == [w |-> w, f |-> [f EXCEPT !.mCancelQueue = @ \cup {host}],
                  stage |-> "checked", res |-> FALSE]
  IN  IF ~w.exists THEN refused
      ELSE IF w.mState # "LOAD_FROM_NETWORK" \/ w.mSentRequest # "SENT_SIM"
      THEN refused
      ELSE IF w.mLastPacket # -1 THEN refused
      ELSE IF data_size = 0 THEN refused
      ELSE IF ~(totalbytes > 0)
              \/ ~(data_size = FIRST_PACKET_SIZE \/ data_size = totalbytes)
      THEN [w |-> w, f |-> [f EXCEPT !.crashed = TRUE], stage |-> "llerrs",
            res |-> FALSE]
      ELSE LET r == insertPacket([w EXCEPT !.mTotalPackets = packets,
                                           !.mFileSize = totalbytes],
                                 0, data_size)
           IN  [w |-> [r[2] EXCEPT !.mState = "LOAD_FROM_SIMULATOR"],
                f |-> f, stage |-> Stage(r[1]), res |-> r[1]]

\* A faulty variant that cancels every packet that insertPacket turns down.
receiveImagePacket_cancelling(w, f, host, packet_num, data_size) ==
  LET refused == [w |-> w, f |-> [f EXCEPT !.mCancelQueue = @ \cup {host}],
                  stage |-> "checked", res |-> FALSE]
  IN  IF ~w.exists THEN refused
      ELSE IF w.mLastPacket = -1 THEN refused
      ELSE IF data_size = 0 THEN refused
      ELSE LET r == insertPacket(w, packet_num, data_size)
           IN  [w |-> [r[2] EXCEPT !.mState = "LOAD_FROM_SIMULATOR"],
                f |-> IF r[1] THEN f
                      ELSE [f EXCEPT !.mCancelQueue = @ \cup {host}],
                stage |-> Stage(r[1]), res |-> r[1]]

\* A faulty variant that puts a worker of any state into LOAD_FROM_SIMULATOR.
receiveImagePacket_reloading(w, f, host, packet_num, data_size) ==
  LET refused == [w |-> w, f |-> [f EXCEPT !.mCancelQueue = @ \cup {host}],
                  stage |-> "checked", res |-> FALSE]
  IN  IF ~w.exists THEN refused
      ELSE IF w.mLastPacket = -1 THEN refused
      ELSE IF data_size = 0 THEN refused
      ELSE LET r == insertPacket(w, packet_num, data_size)
           IN  [w |-> [r[2] EXCEPT !.mState = "LOAD_FROM_SIMULATOR"],
                f |-> IF w.mState \in {"LOAD_FROM_SIMULATOR", "LOAD_FROM_NETWORK"}
                      THEN f ELSE removeFromNetworkQueue(f, TRUE),
                stage |-> Stage(r[1]), res |-> r[1]]

\* receiveImagePacket(host, id, packet_num, data_size, data):
\* [w, f, stage, res].
receiveImagePacket(w, f, host, packet_num, data_size) ==
  LET refused == [w |-> w, f |-> [f EXCEPT !.mCancelQueue = @ \cup {host}],
                  stage |-> "checked", res |-> FALSE]
  IN  IF ~w.exists THEN refused
      ELSE IF w.mLastPacket = -1 THEN refused
      ELSE IF data_size = 0 THEN refused
      ELSE LET r == insertPacket(w, packet_num, data_size)
           IN  IF w.mState \in {"LOAD_FROM_SIMULATOR", "LOAD_FROM_NETWORK"}
               THEN [w |-> [r[2] EXCEPT !.mState = "LOAD_FROM_SIMULATOR"],
                     f |-> f, stage |-> Stage(r[1]), res |-> r[1]]
               ELSE [w |-> r[2], f |-> removeFromNetworkQueue(f, TRUE),
                     stage |-> Stage(r[1]), res |-> r[1]]

(***************************************************************************)
(* SpecSim: one request for a texture that is fetched over the simulator   *)
(* protocol (createRequest is called once, with can_use_http false).  The  *)
(* cache holds nothing or the first packet of the asset, the simulator and *)
(* another host send headers and packets of any index and size, and the    *)
(* decoder succeeds.                                                       *)
(*                                                                         *)
(* SpecFallback: the texture is requested with and without http, the http  *)
(* server of the region answers 404, the simulator sends the header and    *)
(* the packets of the asset in any order, and the main thread calls        *)
(* createRequest again for the same host and polls with                    *)
(* getRequestFinished.  The cache keeps what the worker writes, the        *)
(* decoder may fail, and the clock of the blacklist stands still.          *)
(***************************************************************************)
SimRequested == {<<DataMax, 0>>, <<1, 1>>}

Received(what, host, index, size, r) ==
  [what |-> what, host |-> host, index |-> index, size |-> size,
   stage |-> r.stage, res |-> r.res]

SimInputsFor(w) ==
  {in \in DataInputsFor(w, {0}, {0}) : in.fmt_discard = 0}

\* The worker is about to process a 404 reply.
NotFoundReply(w) ==
  /\ w.exists
  /\ w.mState = "WAIT_HTTP_REQ" /\ w.mLoaded
  /\ w.mRequestedSize < 0 /\ w.mGetStatus = HTTP_NOT_FOUND

SimCreate(desired, can_use_http, creates) ==
  /\ ~fetcher.crashed
  /\ observed.creates < creates
  /\ worker' = IF worker.exists
               THEN createRequest_update(worker, F_ALMOST_ZERO, desired,
                                         can_use_http)
               ELSE createRequest_new("", F_ALMOST_ZERO, desired, can_use_http)
  /\ observed' = [observed EXCEPT !.creates = @ + 1]
  /\ bytes' = [bytes EXCEPT !.send = NoSend, !.udp = NoUdp,
                            !.recreated = @ \/ (bytes.notFound /\ can_use_http)]
  /\ UNCHANGED <<fetcher, blackList, deleted, svars, uvars>>

SimPoll ==
  LET r == getRequestFinished(worker, -1)
  IN  /\ ~fetcher.crashed
      /\ worker.exists
      /\ worker' = r.w
      /\ bytes' = KeepBytes([bytes EXCEPT !.send = NoSend, !.udp = NoUdp],
                            worker')
      /\ UNCHANGED <<fetcher, observed, blackList, deleted, svars, uvars>>

SimDoWork ==
  /\ ~fetcher.crashed
  /\ worker.exists /\ haveWork(worker) /\ ~worker.complete
  /\ \E in \in SimInputsFor(worker) :
       LET C == doWork(worker, fetcher, in)
           b == bytes_after_doWork(bytes, worker, C)
           init == worker.mState = "INIT"
           pass == IF init THEN 0 ELSE bytes.deliveries.pass
       IN  /\ worker' = IF C.ret = "true"
                        THEN [finishWork(C.w) EXCEPT !.complete = TRUE]
                        ELSE C.w
           /\ fetcher' = C.f
           /\ bytes' = [b EXCEPT
                          !.send = NoSend, !.udp = NoUdp,
                          !.deliveries =
                             IF C.end = "sim_data"
                             THEN [pass |-> pass + 1, last |-> Len(b.formatted),
                                   before |-> @.last, gap |-> @.gap /\ ~init]
                             ELSE [@ EXCEPT !.pass = pass,
                                            !.gap = @ /\ ~init],
                          !.notFound = @ \/ NotFoundReply(worker)]
           /\ \E bl \in IF C.blacklist_add
                        THEN add(blackList.blacklist, blackList.now,
                                 TextureUrl("h"), BlackListTimeout)
                        ELSE {blackList.blacklist} :
                blackList' = [blackList EXCEPT !.blacklist = bl]
  /\ UNCHANGED <<observed, deleted, svars, uvars>>

\* CacheReadResponder::completed: the cache holds what the worker wrote
\* last, or the prefix it held before, and fails a read that does not start
\* at offset 0.
SimCacheRead ==
  /\ fetcher.cacheRead
  /\ LET written == bytes.writes # << >>
         entry == IF written THEN bytes.writes[Len(bytes.writes)]
                  ELSE [data |-> SubSeq(AssetBytes(bytes.asset), 1, bytes.cached),
                        size |-> bytes.cached, file_size |-> bytes.asset]
         data_size == Min(entry.size, worker.mDesiredSize)
         success == entry.size > 0
                    /\ getDataSize(worker.mFormattedImage) = 0
     IN  /\ worker' = callbackCacheRead(worker, success,
                                        IF success THEN data_size ELSE 0,
                                        entry.file_size, FALSE)
         /\ bytes' = IF worker'.mFormattedImage # worker.mFormattedImage
                     THEN [bytes EXCEPT
                             !.formatted = SubSeq(entry.data, 1, data_size),
                             !.got = [cache |-> data_size, http |-> 0],
                             !.send = NoSend, !.udp = NoUdp]
                     ELSE [bytes EXCEPT !.send = NoSend, !.udp = NoUdp]
  /\ fetcher' = [fetcher EXCEPT !.cacheRead = FALSE]
  /\ UNCHANGED <<observed, blackList, deleted, svars, uvars>>

SendRequestListToSimulators(resend) ==
  LET r == sendRequestListToSimulators(worker, fetcher, resend)
  IN  /\ ~fetcher.crashed
      /\ worker' = r.w
      /\ fetcher' = r.f
      /\ bytes' = KeepBytes([bytes EXCEPT !.send = NoSend, !.udp = NoUdp],
                            worker')
      /\ UNCHANGED <<observed, blackList, deleted, svars, uvars>>

ReceiveImageHeader(host, packets, totalbytes, data_size) ==
  LET r == receiveImageHeader(worker, fetcher, host, packets, totalbytes,
                              data_size)
  IN  /\ ~fetcher.crashed
      /\ worker' = r.w
      /\ fetcher' = r.f
      /\ bytes' = [bytes EXCEPT
                     !.send = NoSend,
                     !.udp = Received("header", host, 0, data_size, r)]
      /\ UNCHANGED <<observed, blackList, deleted, svars, uvars>>

ReceiveImagePacket(host, packet_num, data_size) ==
  LET r == receiveImagePacket(worker, fetcher, host, packet_num, data_size)
  IN  /\ ~fetcher.crashed
      /\ worker' = r.w
      /\ fetcher' = r.f
      /\ bytes' = [bytes EXCEPT
                     !.send = NoSend,
                     !.udp = Received("packet", host, packet_num, data_size, r),
                     !.deliveries.gap =
                        @ \/ (r.stage = "stored"
                              /\ packet_num > worker.mLastPacket + 1)]
      /\ UNCHANGED <<observed, blackList, deleted, svars, uvars>>

SimInit ==
  /\ NoServices /\ NoUrl /\ NoFetch
  /\ blackList = NoBlackList
  /\ deleted = NoWorker
  /\ bytes \in {[NoBytes EXCEPT !.asset = MaxAsset, !.cached = cached] :
                  cached \in {0, FIRST_PACKET_SIZE}}

\* The arguments of a header and of a packet; an argument that the
\* receiving function does not read in the state of the worker is fixed.
HeaderArguments(w, S) ==
  If(w.exists /\ w.mState = "LOAD_FROM_NETWORK"
       /\ w.mSentRequest = "SENT_SIM" /\ w.mLastPacket = -1,
     S, 0)

PacketArguments(w, S) == If(w.exists /\ w.mLastPacket # -1, S, 0)

\* A header and a packet of any content, from any host.
SimReceiveImageHeader ==
  \E host \in SimHosts,
     packets \in HeaderArguments(worker, {0, 1, MaxPackets}),
     totalbytes \in HeaderArguments(worker, {0, MAX_IMG_PACKET_SIZE, MaxAsset}),
     data_size \in HeaderArguments(worker, 0..MAX_IMG_PACKET_SIZE) :
    ReceiveImageHeader(host, packets, totalbytes, data_size)

SimReceiveImagePacket ==
  \E host \in SimHosts,
     packet_num \in PacketArguments(worker, 0..MaxPackets),
     data_size \in PacketArguments(worker, 0..MAX_IMG_PACKET_SIZE) :
    ReceiveImagePacket(host, packet_num, data_size)

SimNext ==
  \/ \E desired \in SimRequested : SimCreate(desired, FALSE, 1)
  \/ SimDoWork
  \/ SimCacheRead
  \/ DataDecodeCompleted(TRUE)
  \/ DataCacheWriteCompleted
  \/ \E resend \in BOOLEAN : SendRequestListToSimulators(resend)
  \/ SimReceiveImageHeader
  \/ SimReceiveImagePacket

SpecSim == SimInit /\ [][SimNext]_vars

\* The size of packet index of the asset.
AssetPacketSize(index) ==
  IF index = 0 THEN Min(bytes.asset, FIRST_PACKET_SIZE)
  ELSE Min(MAX_IMG_PACKET_SIZE,
           bytes.asset - FIRST_PACKET_SIZE - (index - 1) * MAX_IMG_PACKET_SIZE)

FallbackNext ==
  \/ \E desired \in SimRequested, can_use_http \in BOOLEAN :
       SimCreate(desired, can_use_http, MaxCreates)
  \/ SimPoll
  \/ SimDoWork
  \/ SimCacheRead
  \/ DataHttpCompleted(HTTP_NOT_FOUND)
  \/ \E success \in BOOLEAN : DataDecodeCompleted(success)
  \/ DataCacheWriteCompleted
  \/ \E resend \in BOOLEAN : SendRequestListToSimulators(resend)
  \/ ReceiveImageHeader("mHost", MaxPackets, bytes.asset, AssetPacketSize(0))
  \/ \E packet_num \in 1..(MaxPackets - 1) :
       ReceiveImagePacket("mHost", packet_num, AssetPacketSize(packet_num))

SpecFallback == SimInit /\ [][FallbackNext]_vars

(***************************************************************************)
(* SpecDelete: one request for a texture of the region that is fetched     *)
(* from the cache and over http, and that the main thread deletes at any   *)
(* moment.  deleteRequest takes the worker out of the request map and      *)
(* schedules it for deletion (deleted holds it from then on); the worker   *)
(* thread goes on calling doWork on it while it has work and destroys it   *)
(* once deleteOK returns true, after giving up the work that is left.  A   *)
(* responder that completes finds no worker under the id and only ends the *)
(* operation; readComplete and writeComplete of the cache return true once *)
(* the operation has ended.  observed.pass is "held" once deleteOK has     *)
(* returned false, and "released" or "destroyed" once the worker was       *)
(* destroyed, after deleteOK had returned false or without that.           *)
(***************************************************************************)
\* A faulty variant that lets the worker go whatever its state.
deleteOK_any_state(w, f) ==
  LET read_pending == w.mCacheReadHandle /\ f.cacheRead
      write_pending == w.mCacheWriteHandle /\ f.cacheWrite
  IN  <<~read_pending /\ ~write_pending,
        [w EXCEPT !.mCacheReadHandle = read_pending,
                  !.mCacheWriteHandle = write_pending]>>

\* deleteOK(): <<delete_ok, worker>>.
deleteOK(w, f) ==
  LET read_pending == w.mCacheReadHandle /\ f.cacheRead
      write_pending == w.mCacheWriteHandle /\ f.cacheWrite
      writing == haveWork(w)
                 /\ StateNo(w.mState) >= StateNo("WRITE_TO_CACHE")
                 /\ StateNo(w.mState) <= StateNo("WAIT_ON_WRITE")
  IN  <<~read_pending /\ ~write_pending /\ ~writing,
        [w EXCEPT !.mCacheReadHandle = read_pending,
                  !.mCacheWriteHandle = write_pending]>>

DelCreate(desired) ==
  /\ ~worker.exists /\ ~deleted.exists
  /\ observed.creates = 0
  /\ worker' = createRequest_new("", F_ALMOST_ZERO, desired, TRUE)
  /\ observed' = [observed EXCEPT !.creates = 1]
  /\ UNCHANGED <<fetcher, svars, uvars, xvars>>

\* deleteRequest(id, cancel) for the id of the worker.
DelDeleteRequest(cancel_) ==
  /\ ~fetcher.crashed
  /\ worker.exists
  /\ deleted' = [worker EXCEPT !.deleteRequested = TRUE]
  /\ worker' = NoWorker
  /\ fetcher' = removeRequest(fetcher, cancel_)
  /\ bytes' = KeepBytes([bytes EXCEPT !.send = NoSend], NoWorker)
  /\ UNCHANGED <<observed, blackList, svars, uvars>>

\* The worker thread calls doWork on the worker that is to be deleted.
DelDoWork ==
  /\ ~fetcher.crashed
  /\ deleted.exists /\ haveWork(deleted) /\ ~deleted.complete
  /\ \E in \in DataInputsFor(deleted, {0}, {0}) :
       LET C == doWork(deleted, fetcher, in)
       IN  /\ deleted' = IF C.ret = "true"
                         THEN [finishWork(C.w) EXCEPT !.complete = TRUE]
                         ELSE C.w
           /\ fetcher' = C.f
  /\ UNCHANGED <<worker, observed, bytes, blackList, svars, uvars>>

\* LLWorkerThread::update for the worker that is to be deleted: the worker
\* is destroyed if deleteOK allows it.  The destructor takes the id out of
\* the http queue.
DelUpdate ==
  /\ deleted.exists
  /\ LET r == deleteOK(deleted, fetcher)
     IN  IF r[1]
         THEN /\ deleted' = NoWorker
              /\ fetcher' = [fetcher EXCEPT !.mHTTPTextureQueue = FALSE]
              /\ observed' = [observed EXCEPT
                                !.pass = IF @ = "held" THEN "released"
                                         ELSE "destroyed"]
         ELSE /\ deleted' = r[2]
              /\ observed' = [observed EXCEPT !.pass = "held"]
              /\ UNCHANGED fetcher
  /\ UNCHANGED <<worker, bytes, blackList, svars, uvars>>

\* A responder completes and finds no worker under the id: the operation
\* what of the fetcher ends.
Ended(what) ==
  /\ fetcher[what]
  /\ fetcher' = [fetcher EXCEPT ![what] = FALSE]
  /\ UNCHANGED <<worker, observed, svars, uvars, xvars>>

DelCacheRead == IF worker.exists THEN DataCacheRead ELSE Ended("cacheRead")

DelHttpCompleted ==
  IF worker.exists THEN DataHttpCompleted(HTTP_OK) ELSE Ended("httpGet")

DelDecodeCompleted ==
  IF worker.exists THEN DataDecodeCompleted(TRUE) ELSE Ended("decode")

DelCacheWriteCompleted ==
  IF worker.exists THEN DataCacheWriteCompleted ELSE Ended("cacheWrite")

DelNext ==
  \/ \E desired \in DataRequested : DelCreate(desired)
  \/ DataDoWork({0}, {0})
  \/ \E cancel_ \in BOOLEAN : DelDeleteRequest(cancel_)
  \/ DelDoWork
  \/ DelUpdate
  \/ DelCacheRead
  \/ DelHttpCompleted
  \/ DelDecodeCompleted
  \/ DelCacheWriteCompleted

SpecDelete == DataInit /\ [][DelNext]_vars

(***************************************************************************)
(* SpecDup: queue, cancel and add_queued_to called in any order and with   *)
(* any request and capability type, also for a request that is queued       *)
(* already; queue() itself never looks whether the request is in a queue.   *)
(***************************************************************************)
\* The number of calls of queue in a behaviour.
MaxDupQueued == 2

\* How often request w occurs in the queues of all services.
Occurrences(w) ==
  SumOver([o \in Objs |->
             SumOver([c \in Caps |->
                        Len(SelectSeq(perService[o].mQueuedRequests[c],
                                      LAMBDA x : x = w))], Caps)], Objs)

\* queue() for any request that the transport does not hold, also for one that
\* is in a queue.
QueueAgain(w, c) ==
  /\ easy[w].ps # NoObj
  /\ easy[w].st # "added"
  /\ Len(enqueued) < MaxDupQueued
  /\ LET o == easy[w].ps
         r == queue(perService[o], sTotalQueued, w, c)
     IN /\ perService' = [perService EXCEPT ![o] = r.s]
        /\ sTotalQueued' = r.tq
        /\ easy' = [easy EXCEPT ![w].st = "queued", ![w].cap = c]
        /\ lastOp' = [op |-> "queue", queued |-> Occurrences(w) > 0]
  /\ enqueued' = Append(enqueued, <<w, c>>)
  /\ UNCHANGED <<sInstanceMap, cancelled, dispatched>>
  /\ UNCHANGED <<uvars, wvars, xvars>>

DupNext ==
  \/ \E w \in SchedRequests, c \in Caps : QueueAgain(w, c)
  \/ \E w \in SchedRequests, c \in Caps : Cancel(w, c, FALSE)
  \/ \E o \in Objs : AddQueuedTo(o, {}, FALSE)
  \/ \E w \in SchedRequests : RemovedFromMultiHandle(w)

SpecDup == Init /\ [][DupNext]_vars

(***************************************************************************)
(* SpecStarve: one service whose requests are queued in any capability     *)
(* type, again and again; add_queued_to is called whenever the service is   *)
(* not throttled, so the transport accepts every request it is offered,     *)
(* and every added request is removed in the end.  Weak fairness of the     *)
(* calls of add_queued_to and of the removals: both happen infinitely       *)
(* often; the calls of queue are up to the environment.                     *)
(***************************************************************************)
StarveInit ==
  /\ sInstanceMap = [n \in ServiceNames |-> IF n = 1 THEN 1 ELSE NoObj]
  /\ perService = [o \in Objs |->
                     IF o = 1
                     THEN [NewPerService(1) EXCEPT
                             !.mReferenceCount = 1 + NumRequests]
                     ELSE FreedPerService]
  /\ sTotalQueued = [count |-> 0]
  /\ easy = [w \in SchedRequests |-> [IdleRequest EXCEPT !.ps = 1]]
  /\ lastOp = NoOp
  /\ enqueued = << >>
  /\ cancelled = {}
  /\ dispatched = << >>
  /\ NoUrl
  /\ NoFetch
  /\ NoExtras

StarveQueue == \E w \in SchedRequests, c \in Caps : Queue(w, c, FALSE)

StarveAddQueuedTo == ~throttled(perService[1]) /\ AddQueuedTo(1, {}, FALSE)

StarveRemoved == \E w \in SchedRequests : RemovedFromMultiHandle(w)

StarveNext ==
  \/ StarveQueue
  \/ StarveAddQueuedTo
  \/ StarveRemoved

SpecStarve ==
  /\ StarveInit
  /\ [][StarveNext]_vars
  /\ WF_vars(StarveAddQueuedTo)
  /\ WF_vars(StarveRemoved)

(***************************************************************************)
(* SpecRealign: the block WAIT_HTTP_REQ applied to a worker that waits for  *)
(* the response to a range request, for every combination of the data at    *)
(* hand, the offset and the size of the request, and the size of the asset  *)
(* on the server.  The server answers the range that was requested.         *)
(***************************************************************************)
RealignHeld == {0, 1, 2, 90}
RealignOffsets == {0, 1, 80, 89, 100}
RealignSizes == {1, 200}
RealignAssets == {280, 300}

RealignInit ==
  /\ NoServices /\ NoUrl
  /\ observed = NoCalls
  /\ blackList = NoBlackList
  /\ deleted = NoWorker
  /\ fetcher = [IdleFetcher EXCEPT !.httpGet = TRUE, !.mHTTPTextureQueue = TRUE]
  /\ \E held \in RealignHeld, offset \in RealignOffsets, size \in RealignSizes,
        asset \in RealignAssets, discard \in Discards :
       /\ worker =
            [createRequest_new("http", F_ALMOST_ZERO, <<offset + size, discard>>,
                               TRUE)
               EXCEPT !.mState = "WAIT_HTTP_REQ",
                      !.mFormattedImage = IF held > 0 THEN Image(held)
                                          ELSE NullImage,
                      !.mRequestedOffset = offset,
                      !.mRequestedSize = size,
                      !.mRequestedDiscard = discard]
       /\ bytes = [NoBytes EXCEPT !.asset = asset,
                                  !.formatted = AssetBytes(held),
                                  !.got = [cache |-> held, http |-> 0]]

RealignNext ==
  \/ \E status \in {HTTP_OK, 206} : DataHttpCompleted(status)
  \/ DataDoWork({0}, {0})

SpecRealign == RealignInit /\ [][RealignNext]_vars

(***************************************************************************)
(* SpecPriority: setImagePriority and the priority of the work.  A worker   *)
(* in any state, with any of a few image priorities, is handed every new    *)
(* priority.  The worker of this specification carries two more members:    *)
(* mWorkPriority (calcWorkPriority) and mRequestPriority, the priority of   *)
(* LLWorkerClass that getPriority() returns and setPriority() assigns.  A   *)
(* priority of LLWorkerThread is a sum of its high bits (PRIORITY_LOW,      *)
(* PRIORITY_HIGH, ...) and its low bits 0..PRIORITY_LOWBITS; observed       *)
(* records the call.                                                        *)
(***************************************************************************)
PRIORITY_LOWBITS == 15
PRIORITY_HIGHBITS == 112
PRIORITY_LOW == 16
PRIORITY_HIGH == 48
maxDecodePriority == 240

\* x & PRIORITY_HIGHBITS and a | b for a that has low bits only.
HighBits(x) == ((x \div (PRIORITY_LOWBITS + 1)) % 8) * (PRIORITY_LOWBITS + 1)
LowBits(x) == x % (PRIORITY_LOWBITS + 1)

\* calcWorkPriority(): llmin(PRIORITY_LOWBITS, (U32)(mImagePriority * PRIORITY_SCALE)).
calcWorkPriority(image_priority) ==
  Min(PRIORITY_LOWBITS, (image_priority * PRIORITY_LOWBITS) \div maxDecodePriority)

\* The test of setImagePriority (lines 1582-1583).
setImagePriority_taken(w, priority) ==
  \/ fabs(priority, w.mImagePriority) * 100 > w.mImagePriority * 5
  \/ w.mState = "DONE"

\* A faulty variant that assigns the work priority without the high bits.
setImagePriority_setPriority_low_only(w, priority) ==
  LET w1 == setImagePriority(w, priority)
  IN  IF setImagePriority_taken(w, priority)
      THEN [w1 EXCEPT !.mWorkPriority = calcWorkPriority(priority),
                      !.mRequestPriority = calcWorkPriority(priority)]
      ELSE w1

\* setImagePriority() with calcWorkPriority and setPriority (lines 1579-1590).
setImagePriority_setPriority(w, priority) ==
  LET w1 == setImagePriority(w, priority)
  IN  IF setImagePriority_taken(w, priority)
      THEN [w1 EXCEPT !.mWorkPriority = calcWorkPriority(priority),
                      !.mRequestPriority =
                         calcWorkPriority(priority) + HighBits(@)]
      ELSE w1

ImagePriorities == {0, 16, 31, 32, 100, 105, 106, 200, maxDecodePriority}

PriorityInit ==
  /\ NoServices /\ NoUrl /\ NoExtras
  /\ fetcher = IdleFetcher
  /\ observed = NoCalls
  /\ \E st \in {e_state[i] : i \in 2..Len(e_state)},
        priority \in ImagePriorities, high \in {PRIORITY_LOW, PRIORITY_HIGH} :
       worker = [NewWorker("", priority) EXCEPT !.mState = st]
                @@ [mWorkPriority |-> calcWorkPriority(priority),
                    mRequestPriority |-> high + calcWorkPriority(priority)]

SetImagePriority(priority) ==
  /\ worker' = setImagePriority_setPriority(worker, priority)
  /\ observed' = [pass |-> "setImagePriority", priority |-> priority,
                  before |-> worker.mImagePriority]
  /\ UNCHANGED <<fetcher, svars, uvars, xvars>>

PriorityNext == \E priority \in ImagePriorities : SetImagePriority(priority)

SpecPriority == PriorityInit /\ [][PriorityNext]_vars

(***************************************************************************)
(* SpecRetry: one request for a texture, with or without a url of its own, *)
(* whose http server answers or fails with status 500.  The cache holds a  *)
(* prefix of the asset, and then what the worker wrote last (bytes.writes) *)
(* until removeFromCache empties the entry; it reports the entry as local  *)
(* or not, and the decoder succeeds or fails.                              *)
(*                                                                         *)
(* SpecBusy: the same, with a server that also answers 503.                *)
(*                                                                         *)
(* A request fails only while mHTTPFailCount is at most MaxHTTPFail, which *)
(* bounds the counter.                                                     *)
(***************************************************************************)
RetryKinds == {"", "http"}

RetryCreate(kind, desired) ==
  /\ ~worker.exists
  /\ worker' = createRequest_new(kind, F_ALMOST_ZERO, desired, TRUE)
  /\ UNCHANGED <<fetcher, observed, svars, uvars, xvars>>

\* CacheReadResponder::completed, for an entry of the local or of the
\* texture cache: the cache holds what the worker wrote last, or the prefix
\* it held before, and fails a read that does not start at offset 0.
RetryCacheRead(islocal) ==
  /\ fetcher.cacheRead
  /\ LET written == bytes.writes # << >>
         entry == IF written THEN bytes.writes[Len(bytes.writes)]
                  ELSE [data |-> SubSeq(AssetBytes(bytes.asset), 1, bytes.cached),
                        size |-> bytes.cached, file_size |-> bytes.asset]
         data_size == Min(entry.size, worker.mDesiredSize)
         success == entry.size > 0
                    /\ getDataSize(worker.mFormattedImage) = 0
     IN  /\ worker' = callbackCacheRead(worker, success,
                                        IF success THEN data_size ELSE 0,
                                        entry.file_size, islocal)
         /\ bytes' = IF worker'.mFormattedImage # worker.mFormattedImage
                     THEN [bytes EXCEPT
                             !.formatted = SubSeq(entry.data, 1, data_size),
                             !.got = [cache |-> data_size, http |-> 0],
                             !.send = NoSend, !.udp = NoUdp]
                     ELSE [bytes EXCEPT !.send = NoSend, !.udp = NoUdp]
  /\ fetcher' = [fetcher EXCEPT !.cacheRead = FALSE]
  /\ UNCHANGED <<observed, blackList, deleted, svars, uvars>>

RetryHttpCompleted(failing) ==
  /\ fetcher.httpGet
  /\ \E status \in {HTTP_OK} \cup IF worker.mHTTPFailCount <= MaxHTTPFail
                                  THEN failing ELSE {} :
       DataHttpCompleted(status)

\* removeFromCache(), called by callbackDecoded(false, ...).
removed_from_cache(w, success) ==
  w.mDecodeHandle /\ w.mState = "DECODE_IMAGE_UPDATE" /\ ~success
  /\ ~w.mInLocalCache

\* DecodeResponder::completed: callbackDecoded, which removes the entry of
\* the texture cache if the decoder failed.
RetryDecodeCompleted(success) ==
  /\ fetcher.decode
  /\ worker' = callbackDecoded(worker, success, worker.mLoadedDiscard)
  /\ fetcher' = [fetcher EXCEPT !.decode = FALSE]
  /\ bytes' = IF removed_from_cache(worker, success)
              THEN [bytes EXCEPT !.send = NoSend, !.udp = NoUdp,
                                 !.cached = 0, !.writes = << >>]
              ELSE [bytes EXCEPT !.send = NoSend, !.udp = NoUdp]
  /\ UNCHANGED <<observed, blackList, deleted, svars, uvars>>

RetryNext(failing) ==
  \/ \E kind \in RetryKinds, desired \in DataRequested :
       RetryCreate(kind, desired)
  \/ DataDoWork({0}, {0})
  \/ \E islocal \in BOOLEAN : RetryCacheRead(islocal)
  \/ RetryHttpCompleted(failing)
  \/ \E success \in BOOLEAN : RetryDecodeCompleted(success)
  \/ DataCacheWriteCompleted

SpecRetry == DataInit /\ [][RetryNext({500})]_vars

SpecBusy ==
  DataInit /\ [][RetryNext({500, HTTP_SERVICE_UNAVAILABLE})]_vars

(***************************************************************************)
(* SpecDecode: the texture is requested up to MaxCreates times without     *)
(* http, the main thread polls with getRequestFinished, the simulator      *)
(* sends the header and the packets of the asset in any order, the cache   *)
(* is that of SpecRetry, and the decoder succeeds or fails.                *)
(***************************************************************************)
DecodeNext ==
  \/ \E desired \in SimRequested : SimCreate(desired, FALSE, MaxCreates)
  \/ SimPoll
  \/ SimDoWork
  \/ \E islocal \in BOOLEAN : RetryCacheRead(islocal)
  \/ \E success \in BOOLEAN : RetryDecodeCompleted(success)
  \/ DataCacheWriteCompleted
  \/ \E resend \in BOOLEAN : SendRequestListToSimulators(resend)
  \/ ReceiveImageHeader("mHost", MaxPackets, bytes.asset, AssetPacketSize(0))
  \/ \E packet_num \in 1..(MaxPackets - 1) :
       ReceiveImagePacket("mHost", packet_num, AssetPacketSize(packet_num))

SpecDecode == SimInit /\ [][DecodeNext]_vars

(***************************************************************************)
(* SpecWhole: SpecData with an http server that may ignore the Range       *)
(* header and answer with the whole asset.                                 *)
(***************************************************************************)
\* HTTPGetResponder::completedRaw with the whole asset as the body.
WholeHttpCompleted ==
  /\ fetcher.httpGet
  /\ LET body == AssetBytes(bytes.asset)
     IN  /\ worker' = completedRaw(worker, HTTP_OK, Len(body))
         /\ bytes' = KeepBytes([bytes EXCEPT !.httpBuffer = body,
                                             !.send = NoSend, !.udp = NoUdp], worker')
  /\ fetcher' = [fetcher EXCEPT !.httpGet = FALSE, !.mHTTPTextureQueue = FALSE]
  /\ UNCHANGED <<observed, blackList, deleted, svars, uvars>>

WholeNext ==
  \/ \E desired \in DataRequested : DataCreate(desired)
  \/ DataDoWork({0}, {0})
  \/ DataCacheRead
  \/ \E status \in {HTTP_OK, HTTP_NOT_FOUND} : DataHttpCompleted(status)
  \/ WholeHttpCompleted
  \/ \E success \in BOOLEAN : DataDecodeCompleted(success)
  \/ DataCacheWriteCompleted

SpecWhole == DataInit /\ [][WholeNext]_vars

(***************************************************************************)
(* SpecAdjust: services are registered by instance() at any time, so that  *)
(* a new service has the limit of the setting next to services whose       *)
(* limits were adjusted before, and adjust_concurrent_connections is       *)
(* called with every increment; lastOp records the increment and the       *)
(* services before the call.                                               *)
(***************************************************************************)
AdjustNext ==
  \/ \E w \in SchedRequests, n \in ServiceNames : Instance(w, n)
  \/ \E increment \in Increments : AdjustConcurrentConnections(increment, TRUE)

SpecAdjust == SvcInit /\ [][AdjustNext]_vars

(***************************************************************************)
(* SpecLate: the responders find the worker by the texture id when they    *)
(* complete (getWorker(mID)), whatever worker issued the operation.  The   *)
(* texture is requested up to MaxCreates times, a request may be deleted   *)
(* while its operations are under way and created anew, a worker that      *)
(* waits for an http response may time out, and up to MaxIssued http       *)
(* requests are issued, which complete in any order.  enqueued lists the   *)
(* http requests issued so far (the call of createRequest whose worker     *)
(* issued it, and its range), dispatched the ones under way, and lastOp    *)
(* the last callback with the worker it was called on.                     *)
(***************************************************************************)
\* The http request that the worker waits for: the one issued last, 0 when
\* the worker does not wait for a response.
Awaited ==
  IF worker.exists /\ worker.mState = "WAIT_HTTP_REQ" /\ ~worker.mLoaded
  THEN Len(enqueued) ELSE 0

LateInputsFor(w) ==
  {[in EXCEPT !.timeout = t] :
     in \in DataInputsFor(w, {0}, {0}),
     t \in If(w.mState = "WAIT_HTTP_REQ" /\ ~w.mLoaded, BOOLEAN, FALSE)}

LateDoWork ==
  /\ ~fetcher.crashed
  /\ worker.exists /\ haveWork(worker) /\ ~worker.complete
  /\ \E in \in LateInputsFor(worker) :
       LET C == doWork(worker, fetcher, in)
           C4 == doWork_to_SEND_HTTP_REQ(worker, fetcher, in)
           b == bytes_after_doWork(bytes, worker, C)
           send == SendStep(C4, C, in)
           issued == IF send.did = "issued"
                     THEN <<[by |-> observed.creates,
                             offset |-> C.w.mRequestedOffset,
                             size |-> C.w.mRequestedSize]>>
                     ELSE << >>
       IN  /\ Len(enqueued) + Len(issued) <= MaxIssued
           /\ worker' = IF C.ret = "true"
                        THEN [finishWork(C.w) EXCEPT !.complete = TRUE]
                        ELSE C.w
           /\ fetcher' = C.f
           /\ bytes' = [b EXCEPT !.send = send]
           /\ enqueued' = enqueued \o issued
           /\ dispatched' = IF issued = << >> THEN dispatched
                            ELSE Append(dispatched, Len(enqueued) + 1)
           /\ \E bl \in IF C.blacklist_add
                        THEN add(blackList.blacklist, blackList.now,
                                 TextureUrl("h"), BlackListTimeout)
                        ELSE {blackList.blacklist} :
                blackList' = [blackList EXCEPT !.blacklist = bl]
  /\ lastOp' = [op |-> "doWork"]
  /\ UNCHANGED <<observed, deleted, uvars>>
  /\ UNCHANGED <<sInstanceMap, perService, sTotalQueued, easy, cancelled>>

\* deleteRequest(id, cancel) while no other worker waits for its deletion.
LateDeleteRequest(cancel_) == ~deleted.exists /\ DelDeleteRequest(cancel_)

\* A responder of the operation what completes: it calls its callback on the
\* worker that getWorker(mID) returns, which leaves worker w2 and buffers
\* b2, or finds no worker.  log is the record of the call.
Completed(what, log, f2, w2, b2) ==
  /\ fetcher[what]
  /\ fetcher' = f2
  /\ IF worker.exists
     THEN /\ worker' = w2
          /\ bytes' = b2
          /\ lastOp' = log
     ELSE /\ lastOp' = [op |-> "no worker"]
          /\ UNCHANGED <<worker, bytes>>
  /\ UNCHANGED <<observed, blackList, deleted, uvars>>
  /\ UNCHANGED <<sInstanceMap, perService, sTotalQueued, easy, cancelled>>

NoPacket(b) == [b EXCEPT !.send = NoSend, !.udp = NoUdp]

\* CacheReadResponder::completed, the cache holding bytes.cached bytes.
LateCacheRead ==
  LET data_size == Min(bytes.cached, worker.mDesiredSize)
      success == bytes.cached > 0 /\ getDataSize(worker.mFormattedImage) = 0
      w2 == callbackCacheRead(worker, success,
                              IF success THEN data_size ELSE 0,
                              bytes.asset, FALSE)
      b2 == IF w2.mFormattedImage # worker.mFormattedImage
            THEN [NoPacket(bytes) EXCEPT
                    !.formatted = SubSeq(AssetBytes(bytes.asset), 1, data_size),
                    !.got = [cache |-> data_size, http |-> 0]]
            ELSE NoPacket(bytes)
  IN  /\ Completed("cacheRead",
                   [op |-> "callbackCacheRead", before |-> worker],
                   [fetcher EXCEPT !.cacheRead = FALSE], w2, b2)
      /\ UNCHANGED <<enqueued, dispatched>>

\* HTTPGetResponder::completedRaw of the http request dispatched[i]: the
\* server answers the range of that request, or fails.
LateHttpCompleted(i, status) ==
  /\ i \in 1..Len(dispatched)
  /\ LET r == enqueued[dispatched[i]]
         rest == [k \in 1..(Len(dispatched) - 1) |->
                    IF k < i THEN dispatched[k] ELSE dispatched[k + 1]]
         success == HTTP_OK <= status /\ status < HTTP_MULTIPLE_CHOICES
         body == IF success THEN ServerBody(bytes.asset, r.offset, r.size)
                 ELSE << >>
         w2 == completedRaw(worker, status, Len(body))
         b2 == KeepBytes([NoPacket(bytes) EXCEPT
                            !.httpBuffer = IF Awaited # 0 THEN body ELSE @],
                         w2)
     IN  /\ Completed("httpGet",
                      [op |-> "callbackHttpGet", before |-> worker,
                       request |-> dispatched[i], awaited |-> Awaited],
                      [fetcher EXCEPT !.httpGet = rest # << >>,
                                      !.mHTTPTextureQueue = FALSE],
                      w2, b2)
         /\ dispatched' = rest
         /\ UNCHANGED enqueued

\* DecodeResponder::completed.
LateDecodeCompleted(success) ==
  /\ Completed("decode", [op |-> "callbackDecoded", before |-> worker],
               [fetcher EXCEPT !.decode = FALSE],
               callbackDecoded(worker, success, worker.mLoadedDiscard),
               NoPacket(bytes))
  /\ UNCHANGED <<enqueued, dispatched>>

\* CacheWriteResponder::completed.
LateCacheWriteCompleted ==
  /\ Completed("cacheWrite",
               [op |-> "callbackCacheWrite", before |-> worker],
               [fetcher EXCEPT !.cacheWrite = FALSE],
               callbackCacheWrite(worker), NoPacket(bytes))
  /\ UNCHANGED <<enqueued, dispatched>>

LateNext ==
  \/ \E desired \in SimRequested : SimCreate(desired, TRUE, MaxCreates)
  \/ LateDoWork
  \/ \E cancel_ \in BOOLEAN : LateDeleteRequest(cancel_)
  \/ DelDoWork
  \/ DelUpdate
  \/ LateCacheRead
  \/ \E i \in 1..MaxIssued, status \in {HTTP_OK, HTTP_NOT_FOUND} :
       LateHttpCompleted(i, status)
  \/ \E success \in BOOLEAN : LateDecodeCompleted(success)
  \/ LateCacheWriteCompleted

SpecLate == DataInit /\ [][LateNext]_vars

(***************************************************************************)
(* SpecLocks: the locks of AIPerService.  NumThreads threads call          *)
(* add_queued_to, purge and adjust_concurrent_connections, and each lock   *)
(* the code takes while it already holds one is a step of its own, taken   *)
(* when no other thread holds that lock.  A thread that holds a lock may   *)
(* lock it again (add_queued_to locks its own service at line 409 before   *)
(* it compares it with this).  The lock of sInstanceMap, the lock of a     *)
(* service and the lock of sTotalQueued are <<"map", 0>>, <<"svc", o>> and *)
(* <<"tq", 0>>.  The caller of add_queued_to and of queue holds the lock   *)
(* of the service; queue is one step.  The services stay registered: no    *)
(* handle is released (release locks sInstanceMap alone).  What a call     *)
(* does to the service and to sTotalQueued is applied at the step that     *)
(* takes the last lock it needs: no other thread reads either before that  *)
(* lock is free.                                                           *)
(***************************************************************************)
MapLock == <<"map", 0>>
TotalQueuedLock == <<"tq", 0>>
ServiceLock(o) == <<"svc", o>>
NoLock == <<"none", 0>>

\* The first registered service name from n on (NumNames + 1: end()).
RECURSIVE NextName(_, _)
NextName(map, n) ==
  IF n > NumNames THEN NumNames + 1
  ELSE IF map[n] # NoObj THEN n
  ELSE NextName(map, n + 1)

\* The service the iterator of thread t points at.
Peer(t) == sInstanceMap[threads[t].n]

\* The service whose queues thread t is walking.
Walked(t) == IF threads[t].pc = "aq_walk" THEN threads[t].this ELSE Peer(t)

\* add_queued_to locks sTotalQueued when it takes a request out of a queue
\* (line 366) and when the last queue is empty as well (line 392).
TakesTotalQueued(G, o, bw) ==
  \/ add_queued_to_recursive(G, o, bw).g.tq # G.tq
  \/ \A c \in Caps : G.ps[o].mQueuedRequests[c] = << >>

\* The locks thread t holds.
Held(t) ==
  LET r == threads[t]
  IN CASE r.pc = "idle" -> {}
       [] r.pc \in {"aq_walk", "aq_map"} -> {ServiceLock(r.this)}
       [] r.pc = "aq_tq" -> {ServiceLock(r.this), TotalQueuedLock}
       [] r.pc = "aq_peer" -> {ServiceLock(r.this), MapLock}
       [] r.pc = "aq_peer_walk" ->
            {ServiceLock(r.this), MapLock, ServiceLock(Peer(t))}
       [] r.pc = "aq_peer_tq" ->
            {ServiceLock(r.this), MapLock, ServiceLock(Peer(t)), TotalQueuedLock}
       [] r.pc \in {"purge_svc", "adjust_svc"} -> {MapLock}
       [] r.pc = "purge_tq" -> {MapLock, ServiceLock(Peer(t))}
       [] r.pc = "purge_clear" -> {MapLock, ServiceLock(Peer(t)), TotalQueuedLock}

\* The lock thread t needs for its next step.
Wanted(t) ==
  LET r == threads[t]
  IN CASE r.pc \in {"aq_walk", "aq_peer_walk"} ->
            IF TakesTotalQueued(Glob, Walked(t), r.bw) THEN TotalQueuedLock ELSE NoLock
       [] r.pc = "aq_map" -> MapLock
       [] r.pc \in {"aq_peer", "purge_svc", "adjust_svc"} ->
            IF r.n > NumNames THEN NoLock ELSE ServiceLock(Peer(t))
       [] r.pc = "purge_tq" -> TotalQueuedLock
       [] OTHER -> NoLock

Free(lock, t) == \A u \in Threads \ {t} : lock \notin Held(u)

ApplyTo(G) ==
  /\ perService' = G.ps
  /\ sTotalQueued' = G.tq
  /\ easy' = G.rq

Step(t, r) ==
  /\ threads' = [threads EXCEPT ![t] = r]
  /\ lastOp' = [op |-> "step", t |-> t]
  /\ UNCHANGED <<sInstanceMap, enqueued, cancelled, dispatched>>
  /\ UNCHANGED <<url, canonical, wvars, xvars>>

\* A thread locks service o and calls add_queued_to(multi_handle).
LockedAddQueuedTo(t, o, bw) ==
  /\ threads[t].pc = "idle"
  /\ o \in Registered
  /\ Free(ServiceLock(o), t)
  /\ Step(t, [Idle EXCEPT !.pc = "aq_walk", !.this = o, !.bw = bw])
  /\ UNCHANGED <<perService, sTotalQueued, easy>>

\* Lines 314-403, of the call itself and of the call at line 415.
LockedWalk(t) ==
  LET r == threads[t]
      o == Walked(t)
      takes == TakesTotalQueued(Glob, o, r.bw)
      res == add_queued_to_recursive(Glob, o, r.bw)
  IN /\ r.pc \in {"aq_walk", "aq_peer_walk"}
     /\ takes => Free(TotalQueuedLock, t)
     /\ ApplyTo(res.g)
     /\ Step(t, IF takes
                THEN [r EXCEPT !.pc = IF r.pc = "aq_walk" THEN "aq_tq" ELSE "aq_peer_tq",
                               !.ret = res.ret]
                ELSE IF r.pc = "aq_walk"
                     THEN [r EXCEPT !.pc = "aq_map"]
                     ELSE [r EXCEPT !.pc = "aq_peer",
                                    !.n = NextName(sInstanceMap, r.n + 1)])

\* The end of the scope of a TotalQueued_wat (lines 366, 392-399 and 434).
UnlockTotalQueued(t) ==
  LET r == threads[t]
  IN /\ r.pc \in {"aq_tq", "aq_peer_tq", "purge_clear"}
     /\ Step(t, IF r.pc = "aq_tq"
                THEN (IF r.ret THEN Idle ELSE [r EXCEPT !.pc = "aq_map", !.ret = FALSE])
                ELSE [r EXCEPT !.pc = IF r.pc = "aq_peer_tq" THEN "aq_peer" ELSE "purge_svc",
                               !.n = NextName(sInstanceMap, r.n + 1),
                               !.ret = FALSE])
     /\ UNCHANGED <<perService, sTotalQueued, easy>>

\* Line 406.
LockMap(t) ==
  /\ threads[t].pc = "aq_map"
  /\ Free(MapLock, t)
  /\ Step(t, [threads[t] EXCEPT !.pc = "aq_peer", !.n = NextName(sInstanceMap, 1)])
  /\ UNCHANGED <<perService, sTotalQueued, easy>>

\* Lines 407-414: the end of the loop, or the lock of the next service.
LockPeer(t) ==
  LET r == threads[t]
  IN /\ r.pc = "aq_peer"
     /\ r.n <= NumNames => Free(ServiceLock(Peer(t)), t)
     /\ Step(t, IF r.n > NumNames THEN Idle
                ELSE IF Peer(t) = r.this
                     THEN [r EXCEPT !.n = NextName(sInstanceMap, r.n + 1)]
                     ELSE [r EXCEPT !.pc = "aq_peer_walk"])
     /\ UNCHANGED <<perService, sTotalQueued, easy>>

\* Line 421.
LockedPurge(t) ==
  /\ threads[t].pc = "idle"
  /\ Free(MapLock, t)
  /\ Step(t, [Idle EXCEPT !.pc = "purge_svc", !.n = NextName(sInstanceMap, 1)])
  /\ UNCHANGED <<perService, sTotalQueued, easy>>

\* Lines 422-425.
PurgeLockService(t) ==
  LET r == threads[t]
  IN /\ r.pc = "purge_svc"
     /\ r.n <= NumNames => Free(ServiceLock(Peer(t)), t)
     /\ Step(t, IF r.n > NumNames THEN Idle ELSE [r EXCEPT !.pc = "purge_tq"])
     /\ UNCHANGED <<perService, sTotalQueued, easy>>

\* Lines 426-433, for the service the iterator points at.
PurgeLockTotalQueued(t) ==
  LET r == threads[t]
      one == [m \in ServiceNames |-> IF m = r.n THEN sInstanceMap[m] ELSE NoObj]
  IN /\ r.pc = "purge_tq"
     /\ Free(TotalQueuedLock, t)
     /\ ApplyTo(purge(Glob, one, 1))
     /\ Step(t, [r EXCEPT !.pc = "purge_clear"])

\* Line 440.
LockedAdjust(t, increment) ==
  /\ threads[t].pc = "idle"
  /\ Free(MapLock, t)
  /\ Step(t, [Idle EXCEPT !.pc = "adjust_svc", !.n = NextName(sInstanceMap, 1),
                          !.increment = increment])
  /\ UNCHANGED <<perService, sTotalQueued, easy>>

\* Lines 441-451, for the service the iterator points at.
AdjustLockService(t) ==
  LET r == threads[t]
      one == [m \in ServiceNames |-> IF m = r.n THEN sInstanceMap[m] ELSE NoObj]
      ps == adjust_concurrent_connections(perService, one, 1, r.increment)
  IN /\ r.pc = "adjust_svc"
     /\ r.n <= NumNames => Free(ServiceLock(Peer(t)), t)
     /\ IF r.n > NumNames
        THEN Step(t, Idle) /\ UNCHANGED perService
        ELSE /\ perService' = ps
             /\ Step(t, [r EXCEPT !.n = NextName(sInstanceMap, r.n + 1),
                                  !.increment = ps[Peer(t)].mConcurrectConnections
                                                - perService[Peer(t)].mConcurrectConnections])
     /\ UNCHANGED <<sTotalQueued, easy>>

\* queue (line 282), with the service locked by its caller.
LockedQueue(w, c) ==
  /\ Free(ServiceLock(easy[w].ps), 0)
  /\ Free(TotalQueuedLock, 0)
  /\ Queue(w, c, FALSE)

LocksNext ==
  \/ \E t \in Threads, o \in Objs, bw \in {{}, Registered} :
       LockedAddQueuedTo(t, o, bw)
  \/ \E t \in Threads : LockedWalk(t)
  \/ \E t \in Threads : UnlockTotalQueued(t)
  \/ \E t \in Threads : LockMap(t)
  \/ \E t \in Threads : LockPeer(t)
  \/ \E t \in Threads : LockedPurge(t)
  \/ \E t \in Threads : PurgeLockService(t)
  \/ \E t \in Threads : PurgeLockTotalQueued(t)
  \/ \E t \in Threads, increment \in {0} : LockedAdjust(t, increment)
  \/ \E t \in Threads : AdjustLockService(t)
  \/ \E w \in SchedRequests, c \in {0, 2} : LockedQueue(w, c)

SpecLocks == Init /\ [][LocksNext]_vars

(***************************************************************************)
(* Properties of the active counts and of TotalQueued, checked under Spec.  *)
(***************************************************************************)
ActiveCountsAddUp(s) ==
  /\ \A c \in Caps : s.mAdded[c] >= 0
  /\ SumOver(s.mAdded, Caps) = s.mTotalAdded

QueuedIn(s) == SumOver([c \in Caps |-> Len(s.mQueuedRequests[c])], Caps)

\* C1 (as the code has it): for every registered service, every mAdded is
\* non-negative, the mAdded of the four capability types sum to mTotalAdded,
\* and mTotalAdded never exceeds CurlConcurrentConnectionsPerService, the
\* upper end of the range mConcurrectConnections is clamped to.
C1_ActiveWithinGlobalMax ==
  \A o \in Registered :
    /\ ActiveCountsAddUp(perService[o])
    /\ perService[o].mTotalAdded <= CurlConcurrentConnectionsPerService

\* C1 as stated: mTotalAdded never exceeds the current mConcurrectConnections.
C1_ActiveWithinCurrentLimit ==
  \A o \in Registered :
    /\ ActiveCountsAddUp(perService[o])
    /\ perService[o].mTotalAdded <= perService[o].mConcurrectConnections

\* A service with requests of two capability types added whose limit was
\* then lowered below its number of added requests.
C1_Witness ==
  /\ lastOp.op = "adjust_concurrent_connections"
  /\ \E o \in Registered :
       /\ perService[o].mTotalAdded > perService[o].mConcurrectConnections
       /\ \E c, d \in Caps : /\ c # d
                             /\ perService[o].mAdded[c] > 0
                             /\ perService[o].mAdded[d] > 0

\* C2: TotalQueued::count equals the number of requests in the queues of all
\* capability types of all registered services, and is never negative.
C2_TotalQueuedIsSum ==
  /\ sTotalQueued.count =
       SumOver([o \in Objs |-> IF o \in Registered THEN QueuedIn(perService[o]) ELSE 0],
               Objs)
  /\ sTotalQueued.count >= 0

\* add_queued_to on a service dispatched a request of another service while
\* requests stay queued.
C2_Witness ==
  /\ lastOp.op = "add_queued_to"
  /\ lastOp.sent # << >>
  /\ easy[lastOp.sent[1]].ps # lastOp.o
  /\ sTotalQueued.count > 0

(***************************************************************************)
(* Properties of cancel and of the dispatch order.                          *)
(***************************************************************************)
OfClass(seq, c) == SelectSeq(seq, LAMBDA x : x[2] = c)

Tagged(q, c) == [i \in 1..Len(q) |-> <<q[i], c>>]

\* C3: in every capability type, the requests dispatched so far followed by
\* the requests still queued are the requests queued in that type, in the
\* order they were queued, without the cancelled ones: cancel removes exactly
\* the cancelled request and keeps the order of the others, and add_queued_to
\* dispatches in that order.
C3_CancelKeepsOrder ==
  \A c \in Caps :
    OfClass(dispatched, c) \o Tagged(perService[1].mQueuedRequests[c], c)
      = SelectSeq(enqueued, LAMBDA x : x[2] = c /\ x[1] \notin cancelled)

\* Requests 1..4 were queued in capability type 0, request 2 was cancelled
\* and add_queued_to dispatched 1, 3 and 4.
C3_Witness ==
  /\ enqueued = << <<1, 0>>, <<2, 0>>, <<3, 0>>, <<4, 0>> >>
  /\ cancelled = {2}
  /\ dispatched = << <<1, 0>>, <<3, 0>>, <<4, 0>> >>

DispatchedClasses == [i \in 1..Len(dispatched) |-> dispatched[i][2]]

IsPrefix(a, b) == Len(a) <= Len(b) /\ \A i \in 1..Len(a) : a[i] = b[i]

\* The sizes the queues of service 1 had before the first dispatch.
InitialSize(c) == Len(perService[1].mQueuedRequests[c]) + Len(OfClass(dispatched, c))

Sizes3322 ==
  /\ InitialSize(0) = 3
  /\ InitialSize(1) = 3
  /\ InitialSize(2) = 2
  /\ InitialSize(3) = 2

\* What one add_queued_to call on service 1 dispatches: the approved type with
\* the longer queue, mApprovedFirst on a tie; an unapproved type only when both
\* approved queues are empty, the one mUnapprovedFirst names if it has requests.
DispatchRule ==
  (lastOp'.op = "add_queued_to" /\ Len(dispatched') = Len(dispatched) + 1) =>
    LET c == dispatched'[Len(dispatched')][2]
        s == perService[1]
        len(d) == Len(s.mQueuedRequests[d])
    IN /\ len(c) > 0
       /\ len(0) + len(1) > 0 =>
            /\ c \in {0, 1}
            /\ len(c) >= len(1 - c)
            /\ len(0) = len(1) => /\ c = s.mApprovedFirst
                                  /\ perService'[1].mApprovedFirst = 1 - c
            /\ len(0) # len(1) => perService'[1].mApprovedFirst = s.mApprovedFirst
       /\ len(0) + len(1) = 0 =>
            /\ c \in {2, 3}
            /\ len(2 + s.mUnapprovedFirst) > 0 => c = 2 + s.mUnapprovedFirst

\* C4 (as the code has it): from queue sizes (3, 3, 2, 2) on a fresh service
\* the calls dispatch from the capability types 0, 1, 1, 0, 0, then 1, 2, 3,
\* 2, 3: every call follows DispatchRule.
C4_LongerApprovedQueueFirst ==
  /\ [](Sizes3322 => IsPrefix(DispatchedClasses, <<0, 1, 1, 0, 0, 1, 2, 3, 2, 3>>))
  /\ [][DispatchRule]_vars

\* C4 as stated: the first five calls dispatch from 0, 1, 0, 1, 2.
C4_Alternating ==
  (Sizes3322 /\ Len(dispatched) >= 5) =>
    SubSeq(DispatchedClasses, 1, 5) = <<0, 1, 0, 1, 2>>

\* Five calls have dispatched from the sizes (3, 3, 2, 2).
C4_Witness == Sizes3322 /\ Len(dispatched) = 5

\* The other registered services with a queued request the transport accepts.
AcceptedPeers(A, bw) ==
  {P \in Registered \ {A} :
     QueuedIn(perService[P]) > 0 /\ add_easy_request_accepts(Glob, P, bw)}

\* C5: when service A has queued requests and the transport rejects them, and
\* another registered service B has a queued request the transport accepts,
\* one add_queued_to on A dispatches one request of B (B's queues shrink by
\* one), leaves the queues of A as they were, and lowers TotalQueued::count by
\* one for each service like B (by one when B is the only one).
C5_ThrottledPeerSpillover ==
  [][lastOp'.op = "add_queued_to" =>
       \A B \in Objs, bw \in SUBSET Registered :
         LET A == lastOp'.o
         IN ( /\ A # B
              /\ QueuedIn(perService[A]) > 0
              /\ ~add_easy_request_accepts(Glob, A, bw)
              /\ B \in AcceptedPeers(A, bw)
              /\ AddQueuedTo(A, bw, FALSE) )
            => /\ QueuedIn(perService'[B]) = QueuedIn(perService[B]) - 1
               /\ \E i \in 1..Len(lastOp'.sent) :
                    /\ easy[lastOp'.sent[i]].ps = B
                    /\ easy[lastOp'.sent[i]].st = "queued"
                    /\ easy'[lastOp'.sent[i]].st = "added"
               /\ perService'[A].mQueuedRequests = perService[A].mQueuedRequests
               /\ sTotalQueued'.count =
                    sTotalQueued.count - Cardinality(AcceptedPeers(A, bw))]_vars

\* add_queued_to on a service that keeps its queued request dispatched the
\* request of another service.
C5_Witness ==
  /\ lastOp.op = "add_queued_to"
  /\ QueuedIn(perService[lastOp.o]) > 0
  /\ Len(lastOp.sent) = 1
  /\ easy[lastOp.sent[1]].ps # lastOp.o
  /\ easy[lastOp.sent[1]].st = "added"
  /\ sTotalQueued.count = QueuedIn(perService[lastOp.o])

(***************************************************************************)
(* Properties of the registry, checked under SpecReg.                       *)
(***************************************************************************)
\* Every entry of sInstanceMap points to a live object made for that name,
\* every live object is the entry of its name, and every handle points to a
\* live object.
OneObjectPerName ==
  /\ \A n \in ServiceNames :
       sInstanceMap[n] # NoObj =>
         /\ perService[sInstanceMap[n]].alive
         /\ perService[sInstanceMap[n]].name = n
  /\ \A o \in Objs :
       perService[o].alive => sInstanceMap[perService[o].name] = o
  /\ \A w \in DOMAIN easy :
       easy[w].ps # NoObj => perService[easy[w].ps].alive

\* What a call of instance(n) by request w does to the registry.
InstanceStep ==
  \A w \in DOMAIN easy :
    (lastOp'.op = "instance" /\ easy[w].ps = NoObj /\ easy'[w].ps # NoObj) =>
      LET n == perService'[easy'[w].ps].name
      IN /\ easy'[w].ps = sInstanceMap'[n]
         /\ \A m \in ServiceNames \ {n} : sInstanceMap'[m] = sInstanceMap[m]
         /\ IF sInstanceMap[n] = NoObj
            THEN /\ lastOp'.inserted
                 /\ ~perService[sInstanceMap'[n]].alive
                 /\ Cardinality({m \in ServiceNames : sInstanceMap'[m] # NoObj})
                      = Cardinality({m \in ServiceNames : sInstanceMap[m] # NoObj}) + 1
            ELSE /\ ~lastOp'.inserted
                 /\ sInstanceMap'[n] = sInstanceMap[n]
         /\ \A v \in DOMAIN easy :
              (easy'[v].ps # NoObj /\ perService'[easy'[v].ps].name = n)
                => easy'[v].ps = easy'[w].ps

\* C6: sInstanceMap holds at most one object per service name and no object of
\* that name lives outside it; instance(name) on an unknown name inserts
\* exactly one entry, on a known name it returns the object of the entry, so all
\* handles for one name point to the same object, however instance and the two
\* steps of release interleave.
C6_OneObjectPerName == []OneObjectPerName /\ [][InstanceStep]_vars

\* A request obtained the registered object from instance() while another
\* request, holding the same object, was between the two steps of release().
C6_Witness ==
  /\ lastOp.op = "instance"
  /\ ~lastOp.inserted
  /\ \E v, w \in DOMAIN easy :
       /\ v # w
       /\ easy[v].rel
       /\ easy[w].ps = easy[v].ps

\* C7: an entry leaves sInstanceMap only in the locked step of release(), and
\* only when its object had exactly two references left and none of its four
\* queues held a request; in every other step the entry stays as it is.
C7_EraseOnlyLastIdle ==
  [][\A n \in ServiceNames :
       (sInstanceMap[n] # NoObj /\ sInstanceMap'[n] # sInstanceMap[n]) =>
         /\ lastOp'.op = "release_locked"
         /\ lastOp'.erased
         /\ sInstanceMap'[n] = NoObj
         /\ exactly_two_left(perService[sInstanceMap[n]])
         /\ \A c \in Caps : perService[sInstanceMap[n]].mQueuedRequests[c] = << >>]_vars

\* release() erased an entry while the other service still had a queued request.
C7_Witness ==
  /\ lastOp.op = "release_locked"
  /\ lastOp.erased
  /\ \E n \in ServiceNames : sInstanceMap[n] = NoObj
  /\ sTotalQueued.count > 0

(***************************************************************************)
(* Properties of extract_canonical_servicename, checked under SpecUrl.      *)
(***************************************************************************)
LowerCased(q) == [i \in 1..Len(q) |-> ToLower(q[i])]

\* The canonical name of a url: the lowercased host, and ":port" unless the
\* port is absent or 80.
CanonicalOf(u) ==
  LowerCased(u.host) \o (IF u.port = <<":", "8", "0">> THEN << >> ELSE u.port)

ColonDigitInUserinfo(u) ==
  \E i \in 1..(Len(u.userinfo) - 1) :
    u.userinfo[i] = ":" /\ isDigit(u.userinfo[i + 1])

\* C8: for every url [scheme://][userinfo@]host[:port][/path] the function
\* returns the lowercased host followed by ":port" unless the port is absent
\* or 80, whatever the scheme, the userinfo, the path and the case of the host.
C8_CanonicalName ==
  canonical.done => canonical.name = CanonicalOf(url)

\* What the function does: the name is the canonical one except that ":80" is
\* kept when the userinfo holds a ':' followed by a digit.
C8_CanonicalUnlessColonDigitInUserinfo ==
  canonical.done =>
    canonical.name =
      IF ColonDigitInUserinfo(url) THEN LowerCased(url.host) \o url.port
      ELSE CanonicalOf(url)

\* The function was applied to a url with a scheme, a userinfo holding ':',
\* an upper case host, port 80 and a path, and returned the bare host.
C8_Witness ==
  /\ canonical.done
  /\ url.scheme # << >>
  /\ url.userinfo = <<"U", ":", "p", "@">>
  /\ url.host = <<"B", "a">>
  /\ url.port = <<":", "8", "0">>
  /\ url.path = <<"/", "x">>
  /\ canonical.name = <<"b", "a">>

(***************************************************************************)
(* Properties of the texture fetch worker, checked under SpecFetch.        *)
(***************************************************************************)
\* The result of the step, when the step is a call of getRequestFinished.
PollReturns(finished, pixels) ==
  \E discard_level \in -1..MaxDiscard :
    /\ GetRequestFinished(discard_level)
    /\ getRequestFinished(worker, discard_level).res = finished
    /\ getRequestFinished(worker, discard_level).raw = pixels

PollStep == \E finished \in BOOLEAN, pixels \in BOOLEAN : PollReturns(finished, pixels)

\* The step is an accepted call of createRequest.
CreateStep ==
  /\ observed'.creates = observed.creates + 1
  /\ \E kind \in UrlKinds, priority \in Priorities, desired \in Requested,
        can_use_http \in BOOLEAN :
       CreateRequest(kind, priority, desired, can_use_http)

NoPixels == ~worker.mRawImage /\ worker.mDecodedDiscard < 0

InDone == worker.exists /\ worker.mState = "DONE"
LeavesDone == InDone /\ worker'.exists /\ worker'.mState # "DONE"

\* C10 as stated: a worker leaves DONE only for INIT and only by a call of
\* setDesiredDiscard whose discard is below the decoded discard.
C10_RestartOnlyForFinerDetail ==
  [][LeavesDone => /\ worker'.mState = "INIT"
                   /\ worker'.mDesiredDiscard < worker.mDecodedDiscard
                   /\ CreateStep]_vars

\* C10: a worker leaves DONE only for INIT, and only by an accepted call of
\* createRequest (whose setDesiredDiscard restarts a worker in DONE whatever
\* the discard and the size are) or by doWork finding the desired discard
\* below a decoded discard that is not negative; every accepted call of
\* createRequest moves a worker in DONE to INIT.
C10_DoneLeavesOnlyToInit ==
  /\ [][LeavesDone
          => /\ worker'.mState = "INIT"
             /\ \/ CreateStep
                \/ /\ DoWork
                   /\ worker.mDecodedDiscard >= 0
                   /\ worker.mDesiredDiscard < worker.mDecodedDiscard]_vars
  /\ [][(InDone /\ CreateStep) => worker'.mState = "INIT"]_vars

\* createRequest restarted a worker that was DONE with decoded pixels although
\* the desired discard is not below the decoded one: the worker is in INIT
\* with the completed work of the pass before still uncollected.
C10_Witness ==
  /\ worker.exists /\ worker.mState = "INIT"
  /\ haveWork(worker) /\ worker.complete
  /\ worker.mRawImage /\ worker.mDecodedDiscard >= 0
  /\ worker.mDesiredDiscard >= worker.mDecodedDiscard
  /\ worker.mImagePriority >= F_ALMOST_ZERO

\* During a pass that found enough data in CACHE_POST: the data is not to be
\* written to the cache and the worker is decoding or DONE.
CacheHitStates ==
  observed.hit =>
    /\ worker.mWriteToCacheState = "NOT_WRITE"
    /\ worker.mState \in {"DECODE_IMAGE_UPDATE", "DONE"}

\* No step of such a pass, the call that finds the data included, issues an
\* http request, adds the worker to the network queue or submits a write.
CacheHitStaysLocal ==
  (observed.hit \/ observed'.hit) =>
    /\ fetcher'.httpGet => fetcher.httpGet
    /\ fetcher'.mHTTPTextureQueue => fetcher.mHTTPTextureQueue
    /\ fetcher'.mNetworkQueue => fetcher.mNetworkQueue
    /\ fetcher'.cacheWrite => fetcher.cacheWrite

\* C11 as stated: when the cache read returned at least the desired size or
\* the whole file, the pass decodes and ends DONE without a cache write,
\* without http and without the network queue, and getRequestFinished
\* returns the decoded raw image.
C11_CacheHitReturnsRaw ==
  /\ []CacheHitStates
  /\ [][CacheHitStaysLocal]_vars
  /\ [][(observed.hit /\ PollReturns(TRUE, FALSE)) => FALSE]_vars

\* C11, what holds: the same, except that getRequestFinished returns the raw
\* image only when the decoder had reported success before the call; it
\* reports the request as finished without pixels after a failed decode and
\* after doWork gave the worker up for want of a transport.
C11_CacheHitReturnsRawIfDecoded ==
  /\ []CacheHitStates
  /\ [][CacheHitStaysLocal]_vars
  /\ [][(observed.hit /\ worker.mDecodedDiscard >= 0 /\ PollReturns(TRUE, FALSE))
          => FALSE]_vars
  /\ [][(observed.hit /\ PollReturns(TRUE, TRUE))
          => worker.mDecodedDiscard >= 0]_vars

\* A file:// texture without permission for http found its whole file in the
\* cache read and started the decoder; the next call of doWork returned true
\* in DECODE_IMAGE_UPDATE, before the decoder answered.
C11_Witness ==
  /\ observed.hit
  /\ worker.mUrl = "file" /\ ~worker.mCanUseHTTP /\ ~worker.mCanUseNET
  /\ worker.mState = "DECODE_IMAGE_UPDATE"
  /\ worker.complete /\ worker.mDecodeHandle /\ ~worker.mRawImage

(***************************************************************************)
(* Properties of SGHostBlackList, checked under SpecBlackList.             *)
(***************************************************************************)
\* An entry of the key of url_ that counts more than MAX_ERRORCOUNT errors
\* and has not expired.
ListedKey(url_) ==
  \E i \in 1..Len(blackList.blacklist) :
    LET entry == blackList.blacklist[i]
    IN  /\ entry.host = substr0(url_, rfind_slash(url_))
        /\ entry.errorCount > MAX_ERRORCOUNT
        /\ ~is_obsolete(entry, blackList.now)

\* C20 as stated: isBlacklisted returns true for a url exactly while the
\* entry of its key counts more than MAX_ERRORCOUNT errors and has not
\* expired.
C20_DeniedWhileListed ==
  blackList.asked.url # << >> =>
    (blackList.asked.found <=> ListedKey(blackList.asked.url))

\* C20, what the code guarantees: isBlacklisted never returns true for the
\* url of a texture, whose key is shorter than the url itself.
C20_TextureUrlNeverDenied ==
  rfind_slash(blackList.asked.url) # -1 => ~blackList.asked.found

\* C20: isBlacklisted was asked for the url of a texture of region h and
\* returned false although the key has more than MAX_ERRORCOUNT errors and
\* has not expired.
C20_Witness ==
  /\ blackList.asked.url = TextureUrl("h")
  /\ ~blackList.asked.found
  /\ ListedKey(TextureUrl("h"))

(***************************************************************************)
(* Properties of the http tail and of the admission of http requests,      *)
(* checked under SpecData.                                                 *)
(***************************************************************************)
\* The formatted data was put together from a proper prefix of more than
\* one byte that the cache supplied, and from an http response, for a
\* request at discard 0.
CachedPrefixPlusHttp ==
  /\ worker.exists
  /\ worker.mRequestedDiscard = 0
  /\ bytes.got.cache > 1 /\ bytes.got.cache < bytes.asset
  /\ bytes.got.http > 0

\* doWork has run after the decoder reported success.
DecodedAndWritten ==
  worker.mDecodedDiscard >= 0 /\ worker.mState \in {"WAIT_ON_WRITE", "DONE"}

AdmittedBelowLimits ==
  /\ bytes.send.num < max_http_requests
  /\ \/ bytes.send.bw < throttle_bandwidth
     \/ bytes.send.num < min_http_requests

\* The admission test with the limits themselves admitted.
AdmittedUpToLimits ==
  /\ bytes.send.num < max_http_requests
  /\ \/ bytes.send.bw <= throttle_bandwidth
     \/ bytes.send.num <= min_http_requests

\* C19 as stated: a worker in SEND_HTTP_REQ with mCanUseHTTP issues its
\* request and moves to WAIT_HTTP_REQ exactly when the number of http
\* requests is below HTTPMaxRequests and the bandwidth is below
\* HTTPThrottleBandwidth or the number below HTTPMinRequests; otherwise it
\* stalls and changes nothing.
C19_IssuesIffBelowLimits ==
  bytes.send.did # "none" =>
    /\ bytes.send.did = "issued" <=> AdmittedBelowLimits
    /\ ~AdmittedBelowLimits => bytes.send.did = "stalled"

\* C19, what the code guarantees: the worker stalls, changing neither its
\* own state nor the fetcher's, exactly when the number of http requests has
\* reached HTTPMaxRequests, or the bandwidth exceeds HTTPThrottleBandwidth
\* while the number exceeds HTTPMinRequests; it issues its request only when
\* it does not stall.
C19_StallsIffAboveLimits ==
  bytes.send.did # "none" =>
    /\ bytes.send.did = "stalled" <=> ~AdmittedUpToLimits
    /\ bytes.send.did = "issued" =>
         /\ worker.mState = "WAIT_HTTP_REQ"
         /\ fetcher.mHTTPTextureQueue /\ fetcher.httpGet

\* C19: a request was issued with the bandwidth at HTTPThrottleBandwidth and
\* more than HTTPMinRequests requests active.
C19_Witness ==
  /\ bytes.send.did = "issued"
  /\ bytes.send.bw = throttle_bandwidth
  /\ bytes.send.num = min_http_requests + 1
  /\ worker.mState = "WAIT_HTTP_REQ"

(***************************************************************************)
(* Properties of the packets of the simulator, checked under SpecSim.      *)
(***************************************************************************)
\* The step is a call of receiveImageHeader or receiveImagePacket that
\* called insertPacket.
InsertStep == bytes'.udp.stage \in {"refused", "stored"}

\* The tests of insertPacket on the packets that the worker held.
InsertRejected(index, size, total_packets) ==
  \/ index >= total_packets
  \/ 0 < index /\ index < total_packets - 1 /\ size # MAX_IMG_PACKET_SIZE
  \/ PacketSize(worker, index) # 0

\* C16: insertPacket turns a packet down exactly when its index is not below
\* mTotalPackets, when it is a middle packet of a size other than
\* MAX_IMG_PACKET_SIZE, or when a packet is stored for its index; a packet
\* that is turned down leaves mPackets, mLastPacket and mTotalPackets as they
\* were, and a packet that is accepted is stored and leaves mLastPacket at
\* the end of the run of packets that are present.
C16_InsertPacketRules ==
  [][InsertStep =>
       LET index == bytes'.udp.index
           size == bytes'.udp.size
           last == worker'.mLastPacket
       IN  /\ bytes'.udp.stage = "refused"
                <=> InsertRejected(index, size, worker'.mTotalPackets)
           /\ bytes'.udp.stage = "refused" =>
                /\ worker'.mPackets = worker.mPackets
                /\ worker'.mLastPacket = worker.mLastPacket
                /\ bytes'.udp.what = "packet" =>
                     worker'.mTotalPackets = worker.mTotalPackets
           /\ bytes'.udp.stage = "stored" =>
                /\ PacketSize(worker', index) = size
                /\ \A i \in 0..MaxPackets :
                     i # index => PacketSize(worker', i) = PacketSize(worker, i)
                /\ last >= worker.mLastPacket
                /\ \A i \in (worker.mLastPacket + 1)..last :
                     PacketSize(worker', i) # 0
                /\ PacketSize(worker', last + 1) = 0]_vars

\* A packet that fills a gap was accepted, and the last packet moved past
\* the packets behind the gap.
C16_Witness ==
  /\ bytes.udp.stage = "stored"
  /\ bytes.udp.index < worker.mLastPacket
  /\ bytes.udp.index > 0

\* The step is a call of doWork in which processSimulatorPackets handed
\* data to the formatted image.
Delivery == bytes'.deliveries.pass > bytes.deliveries.pass

\* The number of bytes of the packets 0..(i - 1) of the worker.
RECURSIVE PayloadBefore(_, _)
PayloadBefore(w, i) ==
  IF i = 0 THEN 0 ELSE PayloadBefore(w, i - 1) + PacketSize(w, i - 1)

\* C15: when the worker had no cached prefix (mFirstPacket is 0) and holds
\* the header and the packets 1..n (n is mLastPacket), whatever the order
\* they came in, the data that processSimulatorPackets hands over is the
\* payload of the header followed by the payloads of the packets 1..n in
\* the order of their indices, its length is the sum of their sizes, and
\* mHaveAllData is set exactly when n is mTotalPackets - 1.
C15_PrefixInIndexOrder ==
  [][Delivery /\ worker.mFirstPacket = 0 =>
       LET n == worker.mLastPacket
       IN  /\ Len(bytes'.formatted) = PayloadBefore(worker, n + 1)
           /\ getDataSize(worker'.mFormattedImage) = PayloadBefore(worker, n + 1)
           /\ \A i \in 0..n :
                \A j \in 1..PacketSize(worker, i) :
                  bytes'.formatted[PayloadBefore(worker, i) + j]
                    = PacketBytes(i, PacketSize(worker, i))[j]
           /\ worker'.mHaveAllData <=> n = worker.mTotalPackets - 1]_vars

\* All the packets of an asset of three packets were handed over, and one
\* of them had come before the packet in front of it.
C15_Witness ==
  /\ bytes.deliveries.pass = 1 /\ bytes.deliveries.gap
  /\ worker.mFirstPacket = 0
  /\ worker.mLastPacket = MaxPackets - 1
  /\ worker.mHaveAllData
  /\ Len(bytes.formatted) = PayloadBefore(worker, MaxPackets)

\* The last message that was received was turned down.
PacketRejected ==
  bytes.udp.what # "none" /\ bytes.udp.stage # "llerrs" /\ ~bytes.udp.res

\* C17 as the specification states it: the id of every packet that was
\* turned down is in the cancel set of the host that sent it.
C17_RejectedPacketCancelled ==
  PacketRejected => bytes.udp.host \in fetcher.mCancelQueue

\* C17: a header or a packet that the receiving function turns down by its
\* own tests (no worker, header for a worker that is not waiting for it,
\* second header, data before the header, empty payload) adds the id to the
\* cancel set of the host that sent it.  A packet that reaches insertPacket
\* adds nothing for the sender: the cancel sets stay as they are, except
\* that a data packet for a worker that is in neither LOAD_FROM_NETWORK nor
\* LOAD_FROM_SIMULATOR adds the id for the host of the worker if the id was
\* in the network queue.
C17_CancelOnlyByOwnTests ==
  [][bytes'.udp.what # "none" =>
       /\ bytes'.udp.stage = "checked" =>
            fetcher'.mCancelQueue = fetcher.mCancelQueue \cup {bytes'.udp.host}
       /\ InsertStep =>
            fetcher'.mCancelQueue =
              fetcher.mCancelQueue
                \cup (IF bytes'.udp.what = "packet"
                         /\ worker.mState \notin {"LOAD_FROM_NETWORK",
                                                   "LOAD_FROM_SIMULATOR"}
                         /\ fetcher.mNetworkQueue
                      THEN {"mHost"} ELSE {})]_vars

\* A data packet came before the header of a worker that waits for it, and
\* the id is in the cancel set of the sender.
C17_Witness ==
  /\ bytes.udp.what = "packet" /\ bytes.udp.stage = "checked"
  /\ worker.exists /\ worker.mSentRequest = "SENT_SIM"
  /\ bytes.udp.host = "other"
  /\ fetcher.mCancelQueue = {"other"}

(***************************************************************************)
(* Properties of the fallback from http to the simulator, checked under    *)
(* SpecFallback.                                                           *)
(***************************************************************************)
\* C14 as the specification states it: the data that the packets deliver is
\* never shorter than the data of the delivery before.
C14_DeliveredNeverShorter == bytes.deliveries.before <= bytes.deliveries.last

\* C14: processSimulatorPackets hands data over at most once between two
\* runs of the block INIT, and the data that it hands over starts with the
\* data that the formatted image held, so that it is not shorter.
C14_DeliveryExtendsDataAtHand ==
  [][Delivery =>
       /\ bytes.deliveries.pass = 0
       /\ Len(bytes'.formatted) >= Len(bytes.formatted)
       /\ SubSeq(bytes'.formatted, 1, Len(bytes.formatted)) = bytes.formatted
       /\ bytes'.deliveries.last = getDataSize(worker'.mFormattedImage)]_vars

\* The packets extended a prefix that came from the cache, in a pass that
\* followed one in which packets were delivered.
C14_Witness ==
  /\ bytes.deliveries.pass = 1
  /\ bytes.deliveries.before > 0
  /\ worker.mFirstPacket > 0
  /\ bytes.got.cache > 0
  /\ Len(bytes.formatted) > bytes.got.cache

\* The step is the call of doWork that processes a 404 reply.
NotFoundStep == NotFoundReply(worker) /\ worker'.mState # worker.mState

\* The step issues an http request.
HttpIssued ==
  worker.mState # "WAIT_HTTP_REQ" /\ worker'.mState = "WAIT_HTTP_REQ"

\* C13 as the specification states it: once a 404 reply was processed no
\* http request is issued for the texture (no entry of the blacklist
\* expires, the clock stands still).
C13_NoHttpAfterNotFound == [][bytes.notFound => ~HttpIssued]_vars

\* C13: the call of doWork that processes a 404 reply, the simulator being
\* available, releases the formatted data, goes back to INIT with
\* mCanUseHTTP cleared and adds nothing to the blacklist; from then on no
\* http request is issued until createRequest is called with can_use_http
\* set.
C13_FallbackUntilHttpAllowedAgain ==
  [][/\ NotFoundStep =>
          /\ worker'.mState = "INIT"
          /\ ~worker'.mCanUseHTTP
          /\ getDataSize(worker'.mFormattedImage) = 0
          /\ bytes'.formatted = << >>
          /\ blackList' = blackList
     /\ bytes.notFound /\ ~bytes.recreated => ~HttpIssued]_vars

\* After the 404 reply the worker was put on the network queue, received
\* the header and the packets, and decoded them.
C13_Witness ==
  /\ bytes.notFound /\ ~bytes.recreated
  /\ bytes.deliveries.pass = 1
  /\ worker.mState = "DONE"
  /\ worker.mDecodedDiscard >= 0
  /\ ~worker.mCanUseHTTP
  /\ blackList.blacklist = << >>

(***************************************************************************)
(* Properties of the deletion of a worker, checked under SpecDelete.       *)
(***************************************************************************)
\* The step destroys the worker that was scheduled for deletion.
Destroyed == deleted.exists /\ ~deleted'.exists

\* An operation of the cache that the worker holds a handle of has not
\* ended.
CacheOutstanding(w, f) ==
  \/ w.mCacheReadHandle /\ f.cacheRead
  \/ w.mCacheWriteHandle /\ f.cacheWrite

\* C18 as the specification states it: the worker is destroyed only when no
\* read or write of the cache and no decode that it holds a handle of is
\* outstanding.
C18_DestroyedWithoutHandles ==
  [][Destroyed =>
       /\ ~CacheOutstanding(deleted, fetcher)
       /\ ~(deleted.mDecodeHandle /\ fetcher.decode)]_vars

\* C18: the worker is destroyed only when no read or write of the cache
\* that it holds a handle of is outstanding, and never in the states
\* WRITE_TO_CACHE to WAIT_ON_WRITE; deleteOK does not look at the handle of
\* the decoder.
C18_DestroyedWithoutCacheHandles ==
  [][Destroyed =>
       /\ ~CacheOutstanding(deleted, fetcher)
       /\ deleted.mState \notin {"WRITE_TO_CACHE", "WAIT_ON_WRITE"}
       /\ ~fetcher'.cacheWrite]_vars

\* The worker was destroyed after deleteOK had held it back, and no write
\* of the cache is left.
C18_Witness ==
  /\ observed.pass = "released"
  /\ ~deleted.exists /\ ~worker.exists
  /\ ~fetcher.cacheWrite
  /\ bytes.writes # << >>
(***************************************************************************)
(* Properties of SpecDup.                                                  *)
(***************************************************************************)
NoWorkerTwice == \A w \in SchedRequests : Occurrences(w) <= 1

C25_LimitWithinRange ==
  \A o \in Registered :
    /\ perService[o].mConcurrectConnections >= 1
    /\ perService[o].mConcurrectConnections <= CurlConcurrentConnectionsPerService

\* C25 witness: adjust_concurrent_connections lowered the limit of every service
\* to the lower end of the range.
C25_Witness ==
  /\ lastOp.op = "adjust_concurrent_connections"
  /\ Cardinality(Registered) = NumNames
  /\ \A o \in Registered :
       /\ perService[o].mConcurrectConnections = 1
       /\ perService[o].mConcurrectConnections < CurlConcurrentConnectionsPerService

(***************************************************************************)
(* Properties of SpecStarve.                                               *)
(***************************************************************************)
\* C24 (as claimed): with add_queued_to called infinitely often and a transport
\* that accepts every request, every request queued in any capability type is
\* added to the transport in the end, also while requests keep being queued in
\* the approved types 0 and 1.
C24_EveryQueuedDispatched ==
  \A w \in SchedRequests : (easy[w].st = "queued") ~> (easy[w].st = "added")

\* add_queued_to handed a request to the transport in this step.
Dispatches(w) ==
  /\ lastOp'.op = "add_queued_to"
  /\ easy[w].st = "queued"
  /\ easy'[w].st = "added"

\* C24 (what the code does): a call of add_queued_to hands over one request, and
\* one of an unapproved type 2 or 3 only when the queues of both approved types
\* are empty at the call.
C24_UnapprovedOnlyAfterApproved ==
  [][\A w \in SchedRequests :
       Dispatches(w) =>
         /\ \A v \in SchedRequests \ {w} : ~Dispatches(v)
         /\ easy[w].cap >= 2 =>
              /\ perService[1].mQueuedRequests[0] = << >>
              /\ perService[1].mQueuedRequests[1] = << >>]_vars

\* C24 witness: add_queued_to handed over a request of an approved type while a
\* request of an unapproved type was waiting.
C24_Witness ==
  /\ lastOp.op = "add_queued_to"
  /\ Len(lastOp.sent) = 1
  /\ easy[lastOp.sent[1]].st = "added"
  /\ easy[lastOp.sent[1]].cap < 2
  /\ \E w \in SchedRequests : easy[w].st = "queued" /\ easy[w].cap >= 2

(***************************************************************************)
(* Properties of SpecRealign.                                              *)
(***************************************************************************)
\* A call of doWork that processes a successful response with a body whose
\* offset differs from the size of the data at hand.
RealignStep ==
  /\ worker.mState = "WAIT_HTTP_REQ"
  /\ worker.mLoaded
  /\ worker.mHttpBuffer > 0
  /\ worker.mRequestedOffset # getDataSize(worker.mFormattedImage)
  /\ worker' # worker

C29_PriorityHysteresis ==
  [][observed'.pass = "setImagePriority" =>
       LET p == observed'.priority
           cur == worker.mImagePriority
       IN  IF fabs(p, cur) * 100 <= cur * 5 /\ worker.mState # "DONE"
           THEN worker' = worker
           ELSE /\ worker'.mImagePriority = p
                /\ worker'.mWorkPriority = calcWorkPriority(p)
                /\ LowBits(worker'.mRequestPriority) = calcWorkPriority(p)
                /\ HighBits(worker'.mRequestPriority) =
                     HighBits(worker.mRequestPriority)
                /\ worker'.mState = worker.mState]_vars

\* C29 witness: a call inside the 5% band that was taken because the worker is
\* DONE; the work priority changed and kept its high bits.
C29_Witness ==
  /\ observed.pass = "setImagePriority"
  /\ worker.mState = "DONE"
  /\ observed.before = 31
  /\ observed.priority = 32
  /\ worker.mImagePriority = 32
  /\ HighBits(worker.mRequestPriority) = PRIORITY_HIGH
  /\ worker.mWorkPriority # calcWorkPriority(observed.before)

(***************************************************************************)
(* Properties of the Range header, checked under SpecData.                 *)
(***************************************************************************)
\* C30: the request that SEND_HTTP_REQ issues for a worker that holds cur_size
\* bytes and desires mDesiredSize bytes carries the header
\* Range: bytes=(cur_size - 1)-(mDesiredSize - 1) with offset cur_size - 1 and
\* size mDesiredSize - cur_size + 1 if cur_size > 0, and
\* Range: bytes=0-(mDesiredSize - 1) if cur_size = 0; a request with a
\* positive offset or size has the header.
C30_RangeOfRequest ==
  bytes.send.did = "issued" =>
    LET cur_size == getDataSize(worker.mFormattedImage)
        D == worker.mDesiredSize
    IN  /\ cur_size = Len(bytes.formatted)
        /\ IF cur_size > 0
           THEN /\ bytes.send.range = <<cur_size - 1, D - 1>>
                /\ worker.mRequestedOffset = cur_size - 1
                /\ worker.mRequestedSize = D - cur_size + 1
           ELSE /\ bytes.send.range = <<0, D - 1>>
                /\ worker.mRequestedOffset = 0
                /\ worker.mRequestedSize = D
        /\ (worker.mRequestedOffset > 0 \/ worker.mRequestedSize > 0)
             => bytes.send.range # << >>

\* C30 witness: a request for the rest of an asset of which two bytes came from
\* the cache: it asks for the bytes from the last one held on.
C30_Witness ==
  /\ bytes.send.did = "issued"
  /\ Len(bytes.formatted) = 2
  /\ worker.mDesiredSize = MaxAsset
  /\ bytes.send.range = <<1, MaxAsset - 1>>

\* The worker is about to process the reply to a request that failed with a
\* status of S.
FailedReply(w, S) ==
  /\ w.exists
  /\ w.mState = "WAIT_HTTP_REQ" /\ w.mLoaded
  /\ w.mRequestedSize < 0 /\ w.mGetStatus \in S

\* The statuses that the worker treats as neither missing nor busy.
OtherStatuses == {500}

OtherFailedStep == FailedReply(worker, OtherStatuses) /\ worker' # worker

\* C26 as stated: for failures other than 404, 499 and 503 a worker makes at
\* most HTTP_MAX_RETRY_COUNT + 1 = 4 attempts: under SpecRetry, where every
\* failure has status 500 and mHTTPFailCount counts the requests that failed,
\* no request is issued after four have failed.
C26_AtMostFourAttempts ==
  bytes.send.did = "issued" => worker.mHTTPFailCount < HTTP_MAX_RETRY_COUNT + 1

\* C26, corrected: a failure other than 404, 499 and 503 adds one to
\* mHTTPFailCount, which nothing resets, and the worker goes back to
\* SEND_HTTP_REQ if and only if the new count is below
\* HTTP_MAX_RETRY_COUNT + 1 = 4.  At a count of exactly 4 it decodes the bytes
\* it holds, if any; at 4 without bytes, and at any higher count, it goes to
\* INIT with mCanUseHTTP cleared and no data if mCanUseNET is set, and ends in
\* DONE without data otherwise.  A worker that comes back to SEND_HTTP_REQ
\* after the cap (after the decoder failed on cached bytes, or to refine what it
\* decoded) issues one more request, which gets no retry if it fails: a fifth
\* attempt is possible, and no request is issued once five have failed.
C26_RetriesBelowCap ==
  /\ [](bytes.send.did = "issued"
          => worker.mHTTPFailCount <= HTTP_MAX_RETRY_COUNT + 1)
  /\ [][OtherFailedStep =>
          LET fail == worker.mHTTPFailCount + 1
              cur_size == getDataSize(worker.mFormattedImage)
          IN  /\ worker'.mHTTPFailCount = fail
              /\ IF fail < HTTP_MAX_RETRY_COUNT + 1
                 THEN /\ worker'.mState = "SEND_HTTP_REQ"
                      /\ worker'.mFormattedImage = worker.mFormattedImage
                      /\ worker'.mCanUseHTTP
                 ELSE IF fail = HTTP_MAX_RETRY_COUNT + 1 /\ cur_size > 0
                 THEN /\ worker'.mState = "DECODE_IMAGE"
                      /\ worker'.mFormattedImage = worker.mFormattedImage
                 ELSE IF worker.mCanUseNET
                 THEN /\ worker'.mState = "INIT"
                      /\ ~worker'.mCanUseHTTP
                      /\ getDataSize(worker'.mFormattedImage) = 0
                      /\ ~worker'.complete
                 ELSE /\ worker'.mState = "DONE"
                      /\ worker'.complete
                      /\ ~worker'.mRawImage]_vars

\* C26 witness: the fifth request of a worker has failed, and the worker went
\* back to INIT without data and with mCanUseHTTP cleared.
C26_Witness ==
  /\ worker.exists /\ worker.mHTTPFailCount = HTTP_MAX_RETRY_COUNT + 2
  /\ worker.mGetStatus \in OtherStatuses
  /\ worker.mState = "INIT" /\ ~worker.mCanUseHTTP
  /\ getDataSize(worker.mFormattedImage) = 0

BusyFailedStep ==
  FailedReply(worker, {HTTP_SERVICE_UNAVAILABLE}) /\ worker' # worker

\* C27: a call of doWork that processes a 503 reply adds one to
\* mHTTPFailCount and sets mState to SEND_HTTP_REQ, whatever the count was, and
\* changes nothing else of the worker: it keeps the bytes it holds and
\* mCanUseHTTP, and does not complete.
C27_BusyAlwaysRetries ==
  [][BusyFailedStep =>
       worker' = [worker EXCEPT !.mHTTPFailCount = @ + 1,
                                !.mState = "SEND_HTTP_REQ"]]_vars

\* C27 witness: a worker that holds bytes goes back to SEND_HTTP_REQ after a
\* 503 reply that was its fifth failure.
C27_Witness ==
  /\ worker.exists /\ worker.mState = "SEND_HTTP_REQ"
  /\ worker.mGetStatus = HTTP_SERVICE_UNAVAILABLE
  /\ worker.mHTTPFailCount = HTTP_MAX_RETRY_COUNT + 2
  /\ getDataSize(worker.mFormattedImage) > 0
  /\ worker.mCanUseHTTP /\ ~worker.complete

\* The worker is about to process the failure of the decoder.
DecodeFailed(w) ==
  /\ w.exists
  /\ w.mState = "DECODE_IMAGE_UPDATE" /\ w.mDecoded /\ w.mDecodedDiscard < 0

DecodeFailedStep == DecodeFailed(worker) /\ worker'.mState # worker.mState

\* C28: a call of doWork that processes a failure of the decoder sends the
\* worker back to INIT if and only if mCachedSize > 0, the entry is not of the
\* local cache and mRetryAttempt is 0; it then sets mRetryAttempt to 1 and
\* drops the formatted image, and the entry of the texture cache was removed
\* before.  Every other failure ends the call in DONE, completed, without raw
\* image.  mRetryAttempt never falls, so a worker goes back at most once.
C28_OneRetryOfCachedData ==
  /\ [](worker.exists => worker.mRetryAttempt \in {0, 1})
  /\ [][worker.exists /\ worker'.exists
          => worker'.mRetryAttempt >= worker.mRetryAttempt]_vars
  /\ [][DecodeFailedStep =>
          IF worker.mCachedSize > 0 /\ ~worker.mInLocalCache
             /\ worker.mRetryAttempt = 0
          THEN /\ worker'.mState = "INIT" /\ ~worker'.complete
               /\ worker'.mRetryAttempt = 1
               /\ getDataSize(worker'.mFormattedImage) = 0
               /\ bytes.cached = 0 /\ bytes.writes = << >>
          ELSE /\ worker'.mState = "DONE" /\ worker'.complete
               /\ ~worker'.mRawImage
               /\ worker'.mRetryAttempt = worker.mRetryAttempt]_vars

\* C28 witness: the decoder failed on cached bytes and the worker went back to
\* INIT once; later the decoder failed again on bytes of the texture cache,
\* and the worker ended in DONE without raw image.
C28_Witness ==
  /\ worker.exists /\ worker.mRetryAttempt = 1
  /\ worker.mState = "DONE" /\ worker.complete
  /\ worker.mDecoded /\ worker.mDecodedDiscard < 0
  /\ worker.mCachedSize > 0 /\ ~worker.mInLocalCache
  /\ ~worker.mRawImage

\* The worker holds data and mHaveAllData is set.
HoldsAllData(w) ==
  w.exists /\ w.mHaveAllData /\ getDataSize(w.mFormattedImage) > 0

\* doWork has processed the data that the worker holds.
Processed(w) ==
  w.mState \in {"DECODE_IMAGE", "DECODE_IMAGE_UPDATE", "WRITE_TO_CACHE",
                "WAIT_ON_WRITE", "DONE"}

\* The write that WRITE_TO_CACHE submitted last.
LastWrite == bytes.writes[Len(bytes.writes)]

llclamp(a, lo, hi) == IF a < lo THEN lo ELSE IF a > hi THEN hi ELSE a

\* The state follows a call of adjust_concurrent_connections(increment).
Adjusted == lastOp.op = "adjust_concurrent_connections"

\* C40 as stated: after adjust_concurrent_connections(increment) every
\* registered service has the limit
\* llclamp(old limit + increment, 1, CurlConcurrentConnectionsPerService) in
\* signed arithmetic, whatever the other services are, every capability type's
\* mMaxPipelinedRequests changed by the difference of the limits, and a
\* negative increment raised no limit.
C40_SignedClampOfIncrement ==
  Adjusted =>
    \A o \in Registered :
      LET old == lastOp.before[o].mConcurrectConnections
          new == perService[o].mConcurrectConnections
      IN  /\ new = llclamp(old + lastOp.increment, 1,
                           CurlConcurrentConnectionsPerService)
          /\ \A c \in Caps :
               perService[o].mMaxPipelinedRequests[c] =
                 lastOp.before[o].mMaxPipelinedRequests[c] + (new - old)
          /\ lastOp.increment < 0 => new <= old

\* C40, what the code keeps: the new limit of every registered service lies in
\* 1..CurlConcurrentConnectionsPerService, every capability type's
\* mMaxPipelinedRequests changed by the difference of the limits of its own
\* service, and an increment of 0 changes nothing.
C40_EffectiveDeltaPropagated ==
  Adjusted =>
    /\ \A o \in Registered :
         LET old == lastOp.before[o].mConcurrectConnections
             new == perService[o].mConcurrectConnections
         IN  /\ new \in 1..CurlConcurrentConnectionsPerService
             /\ \A c \in Caps :
                  perService[o].mMaxPipelinedRequests[c] =
                    lastOp.before[o].mMaxPipelinedRequests[c] + (new - old)
    /\ lastOp.increment = 0 => perService = lastOp.before

\* C40 witness: adjust_concurrent_connections(-2) raised the limit of a
\* service from 1 to CurlConcurrentConnectionsPerService.
C40_Witness ==
  /\ Adjusted /\ lastOp.increment = 0 - MaxIncrement
  /\ \E o \in Registered :
       /\ lastOp.before[o].mConcurrectConnections = 1
       /\ perService[o].mConcurrectConnections =
            CurlConcurrentConnectionsPerService

\* The services on which a call add_queued_to(multi_handle) on service o runs
\* add_queued_to: o itself and, when the call did not return from its loop,
\* every other registered service (recursive = true).
InvokedBy(o, bw) ==
  IF add_queued_to_recursive(Glob, o, bw).ret THEN {o} ELSE Registered

\* C32: every invocation of add_queued_to, recursive or not, whether a request
\* was handed over, refused or none was queued, flips mUnapprovedFirst between
\* 0 and 1, and flips mApprovedFirst exactly when the queues of capability
\* types 0 and 1 had the same length at the call; a service on which
\* add_queued_to was not invoked keeps both.
C32_CursorsFlip ==
  [][\A o \in Objs, bw \in SUBSET Registered :
       lastOp'.op = "add_queued_to" /\ AddQueuedTo(o, bw, FALSE) =>
         \A p \in Registered :
           LET s == perService[p]
               t == perService'[p]
               equal == Len(s.mQueuedRequests[0]) = Len(s.mQueuedRequests[1])
           IN IF p \in InvokedBy(o, bw)
              THEN /\ t.mUnapprovedFirst = 1 - s.mUnapprovedFirst
                   /\ t.mApprovedFirst = IF equal THEN 1 - s.mApprovedFirst
                                         ELSE s.mApprovedFirst
              ELSE /\ t.mUnapprovedFirst = s.mUnapprovedFirst
                   /\ t.mApprovedFirst = s.mApprovedFirst]_vars

\* C32 witness: after a call of add_queued_to that handed nothing over, the
\* service called and another service have been through calls with equal and
\* with different lengths of the approved queues: their two cursors differ.
C32_Witness ==
  /\ lastOp.op = "add_queued_to" /\ lastOp.sent = << >>
  /\ \E p \in Registered \ {lastOp.o} :
       /\ perService[p].mApprovedFirst # perService[p].mUnapprovedFirst
       /\ perService[lastOp.o].mApprovedFirst # perService[lastOp.o].mUnapprovedFirst
       /\ perService[p].mUnapprovedFirst # perService[lastOp.o].mUnapprovedFirst

\* Between the two states service p lost exactly the front request of one of
\* its queues, and that request is with the transport.
FrontHandedOver(p) ==
  \E c \in Caps :
    LET q == perService[p].mQueuedRequests[c]
    IN /\ q # << >>
       /\ perService'[p].mQueuedRequests =
            [perService[p].mQueuedRequests EXCEPT ![c] = pop_front(q)]
       /\ easy[Head(q)].st = "queued" /\ easy'[Head(q)].st = "added"

\* C35: one call of add_queued_to(multi_handle) takes at most one request out
\* of the queues of its service and at most one out of the queues of every
\* other service, each the front of its queue and only when the transport
\* accepted it (the service was neither refused bandwidth nor throttled), and
\* TotalQueued::count goes down by exactly the number of requests taken out.
C35_OnePerServiceWhenAccepted ==
  [][\A o \in Objs, bw \in SUBSET Registered :
       lastOp'.op = "add_queued_to" /\ AddQueuedTo(o, bw, FALSE) =>
         LET removed == [p \in Registered |->
                           QueuedIn(perService[p]) - QueuedIn(perService'[p])]
         IN /\ \A p \in Registered :
                 /\ removed[p] \in {0, 1}
                 /\ removed[p] = 0 =>
                      perService'[p].mQueuedRequests = perService[p].mQueuedRequests
                 /\ removed[p] = 1 =>
                      /\ add_easy_request_accepts(Glob, p, bw)
                      /\ p \in InvokedBy(o, bw)
                      /\ FrontHandedOver(p)
            /\ removed[o] = 1 => \A p \in Registered \ {o} : removed[p] = 0
            /\ sTotalQueued.count - sTotalQueued'.count = SumOver(removed, Registered)
            /\ Len(lastOp'.sent) = SumOver(removed, Registered)]_vars

\* C35 witness: a call of add_queued_to on a service whose request the
\* transport refused handed over one request of another service; the service
\* called still has its request queued.
C35_Witness ==
  /\ lastOp.op = "add_queued_to" /\ Len(lastOp.sent) = 1
  /\ easy[lastOp.sent[1]].ps # lastOp.o
  /\ easy[lastOp.sent[1]].st = "added"
  /\ QueuedIn(perService[lastOp.o]) > 0
  /\ sTotalQueued.count = QueuedIn(perService[lastOp.o])

\* The worker waits for data of the simulator.
Loading(w) == w.mState \in {"LOAD_FROM_NETWORK", "LOAD_FROM_SIMULATOR"}

\* The tests of receiveImagePacket before insertPacket (lines 3399-3421).
PacketPasses(w, data_size) == w.exists /\ w.mLastPacket # -1 /\ data_size # 0

\* C31 as stated: a data packet for a worker that is not in
\* LOAD_FROM_NETWORK or LOAD_FROM_SIMULATOR leaves mPackets and mLastPacket as
\* they were.
C31_PacketsOnlyWhileLoading ==
  [][\A host \in SimHosts, packet_num \in 0..MaxPackets,
        data_size \in 0..MAX_IMG_PACKET_SIZE :
       ReceiveImagePacket(host, packet_num, data_size)
         /\ worker.exists /\ ~Loading(worker) =>
           /\ worker'.mPackets = worker.mPackets
           /\ worker'.mLastPacket = worker.mLastPacket]_vars

\* C31, amended: a data packet that passes the tests of receiveImagePacket
\* (the worker exists, mLastPacket is not -1, the packet is not empty) is
\* given to insertPacket in every state of the worker.  For a worker in
\* LOAD_FROM_NETWORK or LOAD_FROM_SIMULATOR the state becomes
\* LOAD_FROM_SIMULATOR; for a worker in any other state the state and every
\* field but mPackets and mLastPacket stay as they were and the id leaves the
\* network queue.  A packet that fails the tests changes nothing in the worker.
C31_PacketStoredInEveryState ==
  [][\A host \in SimHosts, packet_num \in 0..MaxPackets,
        data_size \in 0..MAX_IMG_PACKET_SIZE :
       ReceiveImagePacket(host, packet_num, data_size) /\ worker.exists =>
         LET r == insertPacket(worker, packet_num, data_size)
         IN IF ~PacketPasses(worker, data_size) THEN worker' = worker
            ELSE IF Loading(worker)
            THEN worker' = [r[2] EXCEPT !.mState = "LOAD_FROM_SIMULATOR"]
            ELSE /\ worker' = [worker EXCEPT !.mPackets = r[2].mPackets,
                                             !.mLastPacket = r[2].mLastPacket]
                 /\ ~fetcher'.mNetworkQueue]_vars

\* C31 witness: a data packet was stored for a worker in DECODE_IMAGE.
C31_Witness ==
  /\ bytes.udp.what = "packet" /\ bytes.udp.stage = "stored"
  /\ worker.exists /\ worker.mState = "DECODE_IMAGE"
  /\ Len(worker.mPackets) > bytes.udp.index
  /\ worker.mPackets[bytes.udp.index + 1] = bytes.udp.size

\* The worker as processSimulatorPackets finds it in LOAD_FROM_SIMULATOR.
Assembling(w) == [w EXCEPT !.mFormattedImage = IF @.notNull THEN @ ELSE Image(0)]

\* C39: whenever mLastPacket >= mFirstPacket - 1, every packet
\* mFirstPacket..mLastPacket is present and the packet mLastPacket + 1 is
\* absent or beyond the end of mPackets; processSimulatorPackets never finds
\* a null pointer among the packets it reads.
C39_PacketsContiguous ==
  worker.exists =>
    /\ worker.mLastPacket >= worker.mFirstPacket - 1 =>
         /\ \A i \in worker.mFirstPacket..worker.mLastPacket :
              PacketSize(worker, i) # 0
         /\ PacketSize(worker, worker.mLastPacket + 1) = 0
    /\ ~processSimulatorPackets(Assembling(worker)).crashed

\* C39 witness: the worker started from cached data (mFirstPacket = 1, the
\* packet 0 absent), the packets came out of order and the run
\* mFirstPacket..mLastPacket holds two packets.
C39_Witness ==
  /\ worker.exists /\ worker.mState = "LOAD_FROM_SIMULATOR"
  /\ worker.mFirstPacket = 1 /\ worker.mLastPacket = 2
  /\ PacketSize(worker, 0) = 0
  /\ bytes.udp.what = "packet" /\ bytes.udp.index = 1
  /\ bytes.udp.stage = "stored"

\* callbackHttpGet takes the response: the worker it is called on waits for
\* one.
Consumes(w) == w.exists /\ w.mState = "WAIT_HTTP_REQ" /\ ~w.mLoaded

\* C36 as stated: a completion of an http request is taken as the response
\* only of the request it answers, the one that the worker waits for.
C36_ConsumedByItsRequest ==
  lastOp.op = "callbackHttpGet" /\ Consumes(lastOp.before) =>
    lastOp.request = lastOp.awaited

\* C36, what the code keeps: a completion is taken only by a worker in
\* WAIT_HTTP_REQ that has no response yet, which then has one (mLoaded) and
\* stays in WAIT_HTTP_REQ, so that it takes no second completion before
\* doWork ran; on any other worker the completion changes nothing but
\* mGetStatus.
C36_TakenOnlyWhileWaiting ==
  [][Len(dispatched') < Len(dispatched) /\ worker.exists =>
       IF Consumes(worker)
       THEN worker'.mLoaded /\ worker'.mState = "WAIT_HTTP_REQ"
       ELSE worker' = [worker EXCEPT !.mGetStatus = worker'.mGetStatus]]_vars

\* C36 witness: the completion of the request of a worker that was deleted
\* was taken as the response by the worker created after it for the same
\* id, which waits for another request.
C36_Witness ==
  /\ lastOp.op = "callbackHttpGet" /\ Consumes(lastOp.before)
  /\ lastOp.request # lastOp.awaited
  /\ enqueued[lastOp.request].by # enqueued[lastOp.awaited].by
  /\ deleted.exists /\ deleted.mState = "WAIT_HTTP_REQ"
  /\ worker.exists /\ worker.mLoaded

\* The state in which the callback named op takes effect on worker w.
Matching(op, w) ==
  CASE op = "callbackCacheRead" -> w.mState = "LOAD_FROM_TEXTURE_CACHE"
    [] op = "callbackHttpGet" -> w.mState = "WAIT_HTTP_REQ" /\ ~w.mLoaded
    [] op = "callbackDecoded" -> w.mState = "DECODE_IMAGE_UPDATE" /\ w.mDecodeHandle
    [] op = "callbackCacheWrite" -> w.mState = "WAIT_ON_WRITE"
    [] OTHER -> FALSE

\* The flag that the callback named op sets when it takes effect.
FlagOf(op, w) ==
  CASE op = "callbackDecoded" -> w.mDecoded
    [] op = "callbackCacheWrite" -> w.mWritten
    [] OTHER -> w.mLoaded

\* The fields that a callback in the wrong state leaves alone.
SameResult(w, w2) ==
  /\ w2.mState = w.mState
  /\ w2.mFormattedImage = w.mFormattedImage
  /\ w2.mRawImage = w.mRawImage
  /\ w2.mLoaded = w.mLoaded /\ w2.mDecoded = w.mDecoded
  /\ w2.mWritten = w.mWritten
  /\ w2.mFileSize = w.mFileSize

Callbacks ==
  {"callbackCacheRead", "callbackHttpGet", "callbackDecoded",
   "callbackCacheWrite"}

\* A step in which a responder called its callback on the worker.
CallbackStep ==
  /\ lastOp'.op \in Callbacks /\ worker.exists /\ worker'.exists
  /\ lastOp'.before = worker
  /\ CASE lastOp'.op = "callbackCacheRead" ->
             fetcher.cacheRead /\ ~fetcher'.cacheRead
        [] lastOp'.op = "callbackHttpGet" -> Len(dispatched') < Len(dispatched)
        [] lastOp'.op = "callbackDecoded" -> fetcher.decode /\ ~fetcher'.decode
        [] OTHER -> fetcher.cacheWrite /\ ~fetcher'.cacheWrite

\* C38: a completion callback takes effect only in its state
\* (callbackCacheRead in LOAD_FROM_TEXTURE_CACHE, callbackHttpGet in
\* WAIT_HTTP_REQ without a response, callbackDecoded in DECODE_IMAGE_UPDATE
\* with a decode handle, callbackCacheWrite in WAIT_ON_WRITE), where it sets
\* its flag and keeps the state; in any other state it leaves the state, the
\* formatted image, the raw image, mLoaded, mDecoded, mWritten and mFileSize
\* as they were.
C38_CallbackOnlyInItsState ==
  [][CallbackStep =>
       IF Matching(lastOp'.op, worker)
       THEN FlagOf(lastOp'.op, worker') /\ worker'.mState = worker.mState
       ELSE SameResult(worker, worker')]_vars

\* C38 witness: a second http response came for a worker that already has
\* one (mLoaded) and waits in WAIT_HTTP_REQ with data in mHttpBuffer; the
\* worker kept its state, its flags and its buffer.
C38_Witness ==
  /\ lastOp.op = "callbackHttpGet"
  /\ lastOp.before.exists /\ ~Matching(lastOp.op, lastOp.before)
  /\ lastOp.before.mState = "WAIT_HTTP_REQ" /\ lastOp.before.mLoaded
  /\ lastOp.before.mHttpBuffer > 0
  /\ worker.exists /\ SameResult(lastOp.before, worker)
  /\ worker.mHttpBuffer = lastOp.before.mHttpBuffer
  /\ dispatched = << >> /\ Len(enqueued) = 2

\* C37 as stated: whenever sendRequestListToSimulators can run, the id is
\* not both in the network queue with its worker in LOAD_FROM_NETWORK or
\* LOAD_FROM_SIMULATOR and in the cancel set of a host.
C37_QueuedNotCancelled ==
  worker.exists /\ Loading(worker) /\ fetcher.mNetworkQueue =>
    fetcher.mCancelQueue = {}

\* C37, what the code keeps: a call of sendRequestListToSimulators leaves the
\* cancel sets empty, and leaves the id in the network queue only if its
\* worker is in LOAD_FROM_NETWORK or LOAD_FROM_SIMULATOR.
C37_TickClearsCancels ==
  [][\A resend \in BOOLEAN :
       SendRequestListToSimulators(resend) =>
         /\ fetcher'.mCancelQueue = {}
         /\ fetcher'.mNetworkQueue => worker.exists /\ Loading(worker)]_vars

\* C37 witness: a data packet of the worker's host came before the header and
\* was refused; the worker is in LOAD_FROM_NETWORK with its request sent, the
\* id is in the network queue and in the cancel set of the worker's host.
C37_Witness ==
  /\ bytes.udp.what = "packet" /\ bytes.udp.stage = "checked"
  /\ bytes.udp.host = "mHost"
  /\ worker.exists /\ worker.mState = "LOAD_FROM_NETWORK"
  /\ worker.mSentRequest = "SENT_SIM" /\ worker.mLastPacket = -1
  /\ fetcher.mNetworkQueue /\ "mHost" \in fetcher.mCancelQueue
  /\ ~fetcher.crashed

\* Every handle that a request holds points to a live service object that
\* is the entry of its name in sInstanceMap.
HandlesRegistered ==
  \A w \in DOMAIN easy :
    easy[w].ps # NoObj =>
      /\ perService[easy[w].ps].alive
      /\ sInstanceMap[perService[easy[w].ps].name] = easy[w].ps

\* An entry leaves sInstanceMap only in the locked part of release, with
\* exactly two references left at that moment.
ErasedAfterRecheck ==
  \A n \in ServiceNames :
    (sInstanceMap[n] # NoObj /\ sInstanceMap'[n] = NoObj) =>
      /\ lastOp'.op = "release_locked"
      /\ exactly_two_left(perService[sInstanceMap[n]])
      /\ \A w \in DOMAIN easy : easy'[w].ps # sInstanceMap[n]

\* A call of release that returns while the application runs has reset the
\* handle of its caller.
ReleaseResetsHandle ==
  \A w \in DOMAIN easy :
    /\ (lastOp'.op = "release_locked" /\ easy[w].rel /\ ~easy'[w].rel) =>
         easy'[w].ps = NoObj
    /\ (lastOp'.op = "release" /\ ~lastOp'.stopped /\ easy'[w] # easy[w]
          /\ ~easy'[w].rel) =>
         easy'[w].ps = NoObj

\* C34 as stated: with release and instance of several threads interleaved,
\* an entry is erased only with exactly two references left at the recheck
\* under the lock, every handle points to a registered live object, and a
\* call of release that returns while the application runs has reset the
\* handle of its caller.
C34_ReleaseRacesInstance ==
  [][ErasedAfterRecheck /\ ReleaseResetsHandle /\ HandlesRegistered']_vars

\* C34, what the code keeps: the erase after the recheck and the handles
\* that stay registered.
C34_ErasedOnlyAfterRecheck ==
  []HandlesRegistered /\ [][ErasedAfterRecheck]_vars

\* C34 witness: release found exactly two references, another request got a
\* handle from instance() before release locked sInstanceMap, and release
\* returned after the recheck with the handle of its caller still set: both
\* requests hold the object, which has three references.
C34_Witness ==
  /\ lastOp.op = "release_locked" /\ ~lastOp.erased
  /\ \E w \in DOMAIN easy, v \in DOMAIN easy :
       /\ w # v
       /\ easy[w].ps # NoObj /\ easy[v].ps = easy[w].ps
       /\ ~easy[w].rel /\ ~easy[v].rel
       /\ perService[easy[w].ps].mReferenceCount = 3

(***************************************************************************)
(* C33.  The locks of add_queued_to, purge and                             *)
(* adjust_concurrent_connections.                                          *)
(***************************************************************************)
\* Thread t cannot go on: another thread holds the lock it needs.
Waiting(t) == Wanted(t) # NoLock /\ ~Free(Wanted(t), t)

\* The threads of C wait for locks that threads of C hold.
WaitCycle(C) ==
  /\ C # {}
  /\ \A t \in C : \E u \in C \ {t} : Wanted(t) \in Held(u)

\* While a thread holds the lock of sTotalQueued it asks for no lock.
TotalQueuedIsLast ==
  \A t \in Threads : TotalQueuedLock \in Held(t) => Wanted(t) = NoLock

\* C33 (as stated): concurrent executions of add_queued_to, purge and
\* adjust_concurrent_connections never deadlock: in no reachable state do
\* threads wait for each other's locks of sInstanceMap, of a service or of
\* sTotalQueued in a cycle, and the lock of sTotalQueued is only held while
\* no other lock is requested.
C33_NeverDeadlock ==
  /\ \A C \in SUBSET Threads : ~WaitCycle(C)
  /\ TotalQueuedIsLast

\* C33 (what holds): no lock is held by two threads; a thread that holds
\* the lock of sTotalQueued asks for no lock, so that a thread waiting for
\* sTotalQueued goes on after one step of the holder; and in every cycle of
\* waiting threads some thread is inside add_queued_to(multi_handle), with
\* its service locked, and waits for sInstanceMap or for another service.
C33_TotalQueuedLockedLast ==
  /\ \A t, u \in Threads : t # u => Held(t) \cap Held(u) = {}
  /\ TotalQueuedIsLast
  /\ \A t \in Threads :
       Wanted(t) = TotalQueuedLock /\ Waiting(t) =>
         \E u \in Threads \ {t} : TotalQueuedLock \in Held(u) /\ ~Waiting(u)
  /\ \A C \in SUBSET Threads :
       WaitCycle(C) =>
         \E t \in C : /\ threads[t].pc \in {"aq_map", "aq_peer"}
                      /\ ServiceLock(threads[t].this) \in Held(t)

\* C33 witness: a thread in add_queued_to holds the lock of its service and
\* waits for sInstanceMap, which a thread in purge or in
\* adjust_concurrent_connections holds while it waits for that service.
C33_Witness ==
  \E t, u \in Threads :
    /\ threads[t].pc = "aq_map"
    /\ threads[u].pc \in {"purge_svc", "adjust_svc"}
    /\ MapLock \in Held(u)
    /\ Wanted(t) = MapLock
    /\ Wanted(u) = ServiceLock(threads[t].this)
    /\ WaitCycle({t, u})

====
